---------------------------- MODULE Spec2Model ----------------------------
(***************************************************************************)
(* Model of the JMeter results analysis engine (src/src/analyzer.ts,       *)
(* class ResultsAnalyzer) and of the process and property-file handling of *)
(* the executor (src/src/executor.ts, class JMeterExecutor).               *)
(*                                                                         *)
(* Numbers.  JavaScript numbers that are always integers here (counts,     *)
(* timestamps, elapsed times and the order statistics taken from them) are *)
(* TLA+ integers.  Results of a JavaScript division (averages, rates,      *)
(* throughput) are exact rationals <<num, den>> in lowest terms with       *)
(* den > 0, so that equality of two results is equality of the pairs.      *)
(*                                                                         *)
(* Strings are TLA+ strings; template literals and String() are \o.        *)
(***************************************************************************)
EXTENDS Integers, Sequences, FiniteSets, TLC

VARIABLES
    numbers,          \* argument of average / percentile
    pctArg,           \* percentile argument p
    avgOut,           \* last value returned by average
    pctOut,           \* last value returned by percentile
    results,          \* JTLResult[] handed to the analysis stages
    metrics,          \* PerformanceMetrics (summary)
    endpointMetrics,  \* EndpointMetrics[]
    errors,           \* ErrorAnalysis[]
    bottlenecks,      \* Bottleneck[]
    recommendations,  \* string[] returned by generateRecommendations
    intervalMs,       \* argument of generateTimeSeriesData
    time,             \* loop variable of generateTimeSeriesData
    timeSeriesData,   \* TimeSeriesData[] built by generateTimeSeriesData
    seriesPc,         \* "idle", "loop" (at the loop test), "body" or "done"
    seriesOut,        \* TimeSeriesData[] last returned by generateTimeSeriesData
    written,          \* the header and records the log's producer wrote
    content,          \* argument of parseCsvResults, a sequence of characters
    csvRows,          \* the row object of each pass of parseCsvResults' loop
    csvResults,       \* JTLResult[] returned by parseCsvResults
    xmlSource,        \* the sample elements of the document, attributes as text
    xmlResults,       \* JTLResult[] returned by parseXmlResults
    execMethod,       \* the executor method that spawned the process
    proc,             \* the spawned child process and the events it emitted
    stdout,           \* text collected from the process's stdout
    stderr,           \* text collected from the process's stderr
    promise,          \* the promise the executor method returned
    propsFile,        \* text of bin/user.properties, or NoFile
    setArgs,          \* key and value of the last setProperty call
    setResult,        \* value the last setProperty call returned
    called            \* names of the methods that have returned

statVars     == <<numbers, pctArg, avgOut, pctOut>>
analysisVars == <<results, metrics, endpointMetrics, errors, bottlenecks>>
seriesVars   == <<intervalMs, time, timeSeriesData, seriesPc, seriesOut>>
csvVars      == <<written, content, csvRows, csvResults>>
xmlVars      == <<xmlSource, xmlResults>>
execVars     == <<execMethod, proc, stdout, stderr, promise>>
propVars     == <<propsFile, setArgs, setResult>>
extVars      == <<recommendations, intervalMs, time, timeSeriesData, seriesPc,
                  seriesOut, written, content, csvRows, csvResults, xmlSource,
                  xmlResults, execMethod, proc, stdout, stderr, promise,
                  propsFile, setArgs, setResult>>
vars         == <<numbers, pctArg, avgOut, pctOut, results, metrics,
                  endpointMetrics, errors, bottlenecks, called,
                  recommendations, intervalMs, time, timeSeriesData,
                  seriesPc, seriesOut, written, content, csvRows,
                  csvResults, xmlSource, xmlResults, execMethod, proc,
                  stdout, stderr, promise, propsFile, setArgs, setResult>>

---------------------------------------------------------------------------
(* Bounds of the model *)

MaxLen == 3
MaxEndpoints == 2
MaxBottlenecks == 2
MaxClusters == 4
MaxRecords == 1
MaxElements == 2
MaxWalk == 3000
MaxChunks == 3
MaxLines == 3

---------------------------------------------------------------------------
(* Arithmetic *)

Abs(x) == IF x < 0 THEN -x ELSE x

Max2(a, b) == IF a >= b THEN a ELSE b

RECURSIVE GCD(_, _)
GCD(a, b) == IF b = 0 THEN a ELSE GCD(b, a % b)

\* the JavaScript quotient n / d as a rational in lowest terms; a zero
\* divisor gives <<1, 0>> or <<-1, 0>> (Infinity, -Infinity) and 0 / 0
\* gives <<0, 0>> (NaN)
Rat(n, d) ==
    IF d = 0 THEN <<(IF n > 0 THEN 1 ELSE IF n < 0 THEN -1 ELSE 0), 0>>
    ELSE LET s == IF d < 0 THEN -1 ELSE 1
             g == GCD(Abs(n), Abs(d))
         IN  <<(s * n) \div g, (s * d) \div g>>

Zero == <<0, 1>>

RatOfInt(n) == <<n, 1>>

RatLess(a, b) == a[1] * b[2] < b[1] * a[2]

RatAdd(a, b) == Rat(a[1] * b[2] + b[1] * a[2], a[2] * b[2])

\* a > k for a rational a and an integer k
RatGtInt(a, k) == a[1] > k * a[2]

\* Math.ceil(a / b) for a >= 0, b > 0
CeilDiv(a, b) == (a + b - 1) \div b

RECURSIVE SumSeq(_)
SumSeq(s) == IF s = <<>> THEN 0 ELSE Head(s) + SumSeq(Tail(s))

RECURSIVE MaxSeq(_)
MaxSeq(s) == IF Len(s) = 1 THEN s[1] ELSE Max2(s[1], MaxSeq(Tail(s)))

RECURSIVE MinSeq(_)
MinSeq(s) == IF Len(s) = 1 THEN s[1]
             ELSE LET m == MinSeq(Tail(s)) IN IF s[1] <= m THEN s[1] ELSE m

Map(s, F(_)) == [i \in 1..Len(s) |-> F(s[i])]

Filter(s, P(_)) == SelectSeq(s, P)

\* Array.prototype.sort with a comparator that is a strict weak order:
\* Before(i, j) says the comparator puts s[i] strictly before s[j].  The
\* sort is stable, so among elements the comparator does not separate the
\* earlier index comes first.
StableSort(s, Before(_, _)) ==
    LET n == Len(s)
        pos(i) == 1 + Cardinality({j \in 1..n :
                        Before(j, i) \/ (~Before(i, j) /\ j < i)})
    IN  [k \in 1..n |-> s[CHOOSE i \in 1..n : pos(i) = k]]

\* numbers.sort((a, b) => a - b)
SortAscending(s) == StableSort(s, LAMBDA i, j : s[i] < s[j])

IsSorted(s) == \A i \in 1..Len(s) - 1 : s[i] <= s[i + 1]

---------------------------------------------------------------------------
(* Statistics helpers *)

averageNoGuard(nums) == Rat(SumSeq(nums), Len(nums))

average(nums) ==
    IF Len(nums) = 0 THEN Zero
    ELSE Rat(SumSeq(nums), Len(nums))

percentileWrongIndex(sortedNumbers, p) ==
    IF Len(sortedNumbers) = 0 THEN 0
    ELSE LET index == (p * Len(sortedNumbers)) \div 100 - 1
         IN  sortedNumbers[Max2(0, index) + 1]

percentile(sortedNumbers, p) ==
    IF Len(sortedNumbers) = 0 THEN 0
    ELSE LET index == CeilDiv(p * Len(sortedNumbers), 100) - 1
         IN  sortedNumbers[Max2(0, index) + 1]

---------------------------------------------------------------------------
(* JavaScript object semantics used by groupBy and analyzeErrors *)

MaxArrayIndex == 12

Digit == <<"0", "1", "2", "3", "4", "5", "6", "7", "8", "9">>

\* Number.prototype.toString for a non-negative integer
RECURSIVE ToStr(_)
ToStr(n) == IF n < 10 THEN Digit[n + 1]
            ELSE ToStr(n \div 10) \o Digit[(n % 10) + 1]

\* a property key is an array index when it is the canonical decimal
\* string of an integer (recognised here up to MaxArrayIndex)
IsArrayIndex(key) == \E n \in 0..MaxArrayIndex : ToStr(n) = key

ArrayIndexValue(key) == CHOOSE n \in 0..MaxArrayIndex : ToStr(n) = key

\* the distinct elements of s in order of first occurrence: the order in
\* which keys are created in an object, and the order of [...new Set(s)]
RECURSIVE FirstSeen(_)
FirstSeen(s) ==
    IF s = <<>> THEN <<>>
    ELSE LET rest == FirstSeen(SubSeq(s, 1, Len(s) - 1))
             x    == s[Len(s)]
         IN  IF \E i \in 1..Len(rest) : rest[i] = x THEN rest
             ELSE Append(rest, x)

\* Object.entries lists array-index keys first, in ascending numeric
\* order, then the other string keys in creation order
ObjectEntries(createdKeys) ==
    LET idx    == SelectSeq(createdKeys, IsArrayIndex)
        others == SelectSeq(createdKeys, LAMBDA k : ~IsArrayIndex(k))
    IN  StableSort(idx, LAMBDA i, j :
                     ArrayIndexValue(idx[i]) < ArrayIndexValue(idx[j]))
        \o others

---------------------------------------------------------------------------
(* calculateMetrics *)

getEmptyMetrics ==
    [ totalRequests |-> 0, successfulRequests |-> 0, failedRequests |-> 0,
      errorRate |-> Zero, averageResponseTime |-> Zero,
      medianResponseTime |-> 0, minResponseTime |-> 0,
      maxResponseTime |-> 0, percentile90 |-> 0, percentile95 |-> 0,
      percentile99 |-> 0, throughput |-> Zero, receivedKBPerSec |-> Zero,
      sentKBPerSec |-> Zero, avgBytes |-> Zero, avgLatency |-> Zero,
      avgConnectTime |-> Zero ]

Elapsed(rs)    == Map(rs, LAMBDA r : r.elapsed)
Timestamps(rs) == Map(rs, LAMBDA r : r.timestamp)
Failed(rs)     == Filter(rs, LAMBDA r : ~r.success)

\* Math.max(...timestamps) - Math.min(...timestamps)
argumentSortedInPlace(rs) ==
    StableSort(rs, LAMBDA i, j : rs[i].elapsed < rs[j].elapsed)

\* the argument array after results.map(r => r.elapsed).sort(...): map
\* allocates the array that sort reorders, the argument stays as it was
argumentAfterSort(rs) == rs

totalTime(rs) == MaxSeq(Timestamps(rs)) - MinSeq(Timestamps(rs))

perSecondNoGuard(amount, scale, span) == Rat(amount * 1000, scale * span)

\* amount / scale / totalTimeInSeconds guarded by totalTimeInSeconds > 0
perSecond(amount, scale, span) ==
    IF span > 0 THEN Rat(amount * 1000, scale * span) ELSE Zero

calculateMetrics(rs) ==
    IF Len(rs) = 0 THEN getEmptyMetrics
    ELSE
    LET responseTimes == SortAscending(Elapsed(rs))
        span          == totalTime(rs)
        bytesSum      == SumSeq(Map(rs, LAMBDA r : r.bytes))
        sentSum       == SumSeq(Map(rs, LAMBDA r : r.sentBytes))
    IN  [ totalRequests       |-> Len(rs),
          successfulRequests  |-> Len(Filter(rs, LAMBDA r : r.success)),
          failedRequests      |-> Len(Failed(rs)),
          errorRate           |-> Rat(Len(Failed(rs)) * 100, Len(rs)),
          averageResponseTime |-> average(responseTimes),
          medianResponseTime  |-> percentile(responseTimes, 50),
          minResponseTime     |-> MinSeq(responseTimes),
          maxResponseTime     |-> MaxSeq(responseTimes),
          percentile90        |-> percentile(responseTimes, 90),
          percentile95        |-> percentile(responseTimes, 95),
          percentile99        |-> percentile(responseTimes, 99),
          throughput          |-> perSecond(Len(rs), 1, span),
          receivedKBPerSec    |-> perSecond(bytesSum, 1024, span),
          sentKBPerSec        |-> perSecond(sentSum, 1024, span),
          avgBytes            |-> Rat(bytesSum, Len(rs)),
          avgLatency          |-> average(Map(rs, LAMBDA r : r.latency)),
          avgConnectTime      |-> average(Map(rs, LAMBDA r : r.connect)) ]

---------------------------------------------------------------------------
(* calculateEndpointMetrics *)

\* groupBy(array, 'label'): the keys in creation order and, per key, the
\* items carrying it in input order
groupByKeys(rs) == FirstSeen(Map(rs, LAMBDA r : r.label))

groupByItemsUnfiltered(rs, label) == rs

groupByItems(rs, label) == Filter(rs, LAMBDA r : r.label = label)

endpointEntry(label, endpointResults) ==
    LET responseTimes == SortAscending(Elapsed(endpointResults))
        span          == totalTime(endpointResults)
        bytesSum      == SumSeq(Map(endpointResults, LAMBDA r : r.bytes))
        sentSum       == SumSeq(Map(endpointResults, LAMBDA r : r.sentBytes))
    IN  [ label            |-> label,
          samples          |-> Len(endpointResults),
          average          |-> average(responseTimes),
          median           |-> percentile(responseTimes, 50),
          min              |-> MinSeq(responseTimes),
          max              |-> MaxSeq(responseTimes),
          percentile90     |-> percentile(responseTimes, 90),
          percentile95     |-> percentile(responseTimes, 95),
          percentile99     |-> percentile(responseTimes, 99),
          errorRate        |-> Rat(Len(Failed(endpointResults)) * 100,
                                   Len(endpointResults)),
          throughput       |-> perSecond(Len(endpointResults), 1, span),
          receivedKBPerSec |-> perSecond(bytesSum, 1024, span),
          sentKBPerSec     |-> perSecond(sentSum, 1024, span) ]

\* metrics.sort((a, b) => b.average - a.average)
sortByAverageDescending(ms) ==
    StableSort(ms, LAMBDA i, j : RatLess(ms[j].average, ms[i].average))

calculateEndpointMetrics(rs) ==
    LET entries == ObjectEntries(groupByKeys(rs))
        ms      == [i \in 1..Len(entries) |->
                      endpointEntry(entries[i], groupByItems(rs, entries[i]))]
    IN  sortByAverageDescending(ms)

---------------------------------------------------------------------------
(* analyzeErrors *)

\* `${result.responseCode}-${result.responseMessage}`
errorKey(r) == r.responseCode \o "-" \o r.responseMessage

percentageOfFailures(count, rs) == Rat(count * 100, Len(Failed(rs)))

\* errors.length / results.length * 100
percentageOfAll(count, rs) == Rat(count * 100, Len(rs))

errorEntry(errs, rs) ==
    [ responseCode      |-> errs[1].responseCode,
      responseMessage   |-> errs[1].responseMessage,
      count             |-> Len(errs),
      percentage        |-> percentageOfAll(Len(errs), rs),
      affectedEndpoints |-> FirstSeen(Map(errs, LAMBDA e : e.label)) ]

sortByCountAscending(es) ==
    StableSort(es, LAMBDA i, j : es[i].count < es[j].count)

sortByCountDescending(es) ==
    StableSort(es, LAMBDA i, j : es[i].count > es[j].count)

analyzeErrors(rs) ==
    LET failedResults == Failed(rs)
        entries == ObjectEntries(FirstSeen(Map(failedResults, errorKey)))
        es == [i \in 1..Len(entries) |->
                 errorEntry(Filter(failedResults,
                                   LAMBDA r : errorKey(r) = entries[i]), rs)]
    IN  IF Len(failedResults) = 0 THEN <<>>
        ELSE sortByCountDescending(es)

---------------------------------------------------------------------------
(* identifyBottlenecks *)

slowSeverityInclusive(avg) ==
    IF ~RatLess(avg, RatOfInt(5000)) THEN "critical"
    ELSE IF ~RatLess(avg, RatOfInt(3000)) THEN "high" ELSE "medium"

\* endpoint.average > 5000 ? 'critical' : endpoint.average > 3000 ? 'high' : 'medium'
slowSeverity(avg) ==
    IF RatGtInt(avg, 5000) THEN "critical"
    ELSE IF RatGtInt(avg, 3000) THEN "high" ELSE "medium"

errorSeverityInclusive(rate) ==
    IF ~RatLess(rate, RatOfInt(20)) THEN "critical"
    ELSE IF ~RatLess(rate, RatOfInt(10)) THEN "high" ELSE "medium"

\* rate > 20 ? 'critical' : rate > 10 ? 'high' : 'medium'
errorSeverity(rate) ==
    IF RatGtInt(rate, 20) THEN "critical"
    ELSE IF RatGtInt(rate, 10) THEN "high" ELSE "medium"

latencySeverityInclusive(p95) ==
    IF p95 >= 3000 THEN "critical"
    ELSE IF p95 >= 2000 THEN "high" ELSE "medium"

\* p95 > 3000 ? 'critical' : p95 > 2000 ? 'high' : 'medium'
latencySeverity(p95) ==
    IF p95 > 3000 THEN "critical"
    ELSE IF p95 > 2000 THEN "high" ELSE "medium"

slowEndpointBottleneck(endpoint) ==
    [ type             |-> "slow-endpoint",
      severity         |-> slowSeverity(endpoint.average),
      description      |-> "Endpoint \"" \o endpoint.label
                              \o "\" has slow response time",
      affectedEndpoint |-> endpoint.label,
      metric           |-> "Average Response Time",
      value            |-> endpoint.average,
      threshold        |-> 2000 ]

endpointErrorBottleneck(endpoint) ==
    [ type             |-> "high-error-rate",
      severity         |-> errorSeverity(endpoint.errorRate),
      description      |-> "Endpoint \"" \o endpoint.label
                              \o "\" has high error rate",
      affectedEndpoint |-> endpoint.label,
      metric           |-> "Error Rate",
      value            |-> endpoint.errorRate,
      threshold        |-> 5 ]

latencyBottleneck(endpoint) ==
    [ type             |-> "high-latency",
      severity         |-> latencySeverity(endpoint.percentile95),
      description      |-> "Endpoint \"" \o endpoint.label
                              \o "\" has high latency at 95th percentile",
      affectedEndpoint |-> endpoint.label,
      metric           |-> "95th Percentile",
      value            |-> RatOfInt(endpoint.percentile95),
      threshold        |-> 1000 ]

overallErrorBottleneckLow(m) ==
    [ type             |-> "overall-error-rate",
      severity         |-> IF RatGtInt(m.errorRate, 20) THEN "critical"
                           ELSE IF RatGtInt(m.errorRate, 10) THEN "high"
                           ELSE "low",
      description      |-> "Overall error rate is high",
      affectedEndpoint |-> "All endpoints",
      metric           |-> "Error Rate",
      value            |-> m.errorRate,
      threshold        |-> 5 ]

overallErrorBottleneck(m) ==
    [ type             |-> "high-error-rate",
      severity         |-> errorSeverity(m.errorRate),
      description      |-> "Overall error rate is high",
      affectedEndpoint |-> "All endpoints",
      metric           |-> "Error Rate",
      value            |-> m.errorRate,
      threshold        |-> 5 ]

endpointBottlenecksFirstOnly(endpoint) ==
    IF RatGtInt(endpoint.average, 2000)
    THEN <<slowEndpointBottleneck(endpoint)>>
    ELSE IF RatGtInt(endpoint.errorRate, 5)
    THEN <<endpointErrorBottleneck(endpoint)>>
    ELSE IF endpoint.percentile95 > 1000
    THEN <<latencyBottleneck(endpoint)>>
    ELSE <<>>

\* the body of the loop over endpointMetrics: up to three pushes
endpointBottlenecks(endpoint) ==
    (IF RatGtInt(endpoint.average, 2000)
       THEN <<slowEndpointBottleneck(endpoint)>> ELSE <<>>)
    \o (IF RatGtInt(endpoint.errorRate, 5)
       THEN <<endpointErrorBottleneck(endpoint)>> ELSE <<>>)
    \o (IF endpoint.percentile95 > 1000
       THEN <<latencyBottleneck(endpoint)>> ELSE <<>>)

RECURSIVE allEndpointBottlenecks(_)
allEndpointBottlenecks(eps) ==
    IF eps = <<>> THEN <<>>
    ELSE endpointBottlenecks(Head(eps)) \o allEndpointBottlenecks(Tail(eps))

overallBottlenecks(m) ==
    IF RatGtInt(m.errorRate, 5) THEN <<overallErrorBottleneck(m)>> ELSE <<>>

severityOrder == [critical |-> 0, high |-> 1, medium |-> 2, low |-> 3]

sortBySeverityReversed(bs) ==
    StableSort(bs, LAMBDA i, j :
        severityOrder[bs[i].severity] > severityOrder[bs[j].severity])

\* bottlenecks.sort((a, b) => severityOrder[a.severity] - severityOrder[b.severity])
sortBySeverity(bs) ==
    StableSort(bs, LAMBDA i, j :
        severityOrder[bs[i].severity] < severityOrder[bs[j].severity])

identifyBottlenecks(m, eps) ==
    sortBySeverity(allEndpointBottlenecks(eps) \o overallBottlenecks(m))

---------------------------------------------------------------------------
(* generateRecommendations *)

\* the rests a response code can have after its first character
CodeTails == {"", "0", "00", "01", "03", "04", "7014"}

\* String.prototype.startsWith
StartsWith(str, prefix) == \E rest \in CodeTails : prefix \o rest = str

bottleneckAdviceSwapped(b) ==
    IF b.type = "slow-endpoint" THEN
        <<"Reduce latency for \"" \o b.affectedEndpoint
          \o "\": Review network configuration, enable compression, or use CDN.">>
    ELSE IF b.type = "high-error-rate" THEN
        <<"Investigate errors in \"" \o b.affectedEndpoint
          \o "\": Check server logs, validate input data, and review error handling.">>
    ELSE IF b.type = "high-latency" THEN
        <<"Optimize \"" \o b.affectedEndpoint
          \o "\": Consider database query optimization, caching, or code profiling.">>
    ELSE <<>>

\* the body of the loop over bottlenecks
bottleneckAdvice(b) ==
    IF b.type = "slow-endpoint" THEN
        <<"Optimize \"" \o b.affectedEndpoint
          \o "\": Consider database query optimization, caching, or code profiling.">>
    ELSE IF b.type = "high-error-rate" THEN
        <<"Investigate errors in \"" \o b.affectedEndpoint
          \o "\": Check server logs, validate input data, and review error handling.">>
    ELSE IF b.type = "high-latency" THEN
        <<"Reduce latency for \"" \o b.affectedEndpoint
          \o "\": Review network configuration, enable compression, or use CDN.">>
    ELSE <<>>

RECURSIVE bottleneckAdvisories(_)
bottleneckAdvisories(bs) ==
    IF bs = <<>> THEN <<>>
    ELSE bottleneckAdvice(Head(bs)) \o bottleneckAdvisories(Tail(bs))

\* the body of the loop over errors.slice(0, 3)
errorAdvice(error) ==
    IF StartsWith(error.responseCode, "5") THEN
        <<"Server errors (" \o error.responseCode
          \o "): Review server capacity, check for memory leaks, and monitor resource usage.">>
    ELSE IF error.responseCode = "404" THEN
        <<"404 errors found: Verify API endpoints are correctly configured and accessible.">>
    ELSE IF error.responseCode = "401" \/ error.responseCode = "403" THEN
        <<"Authentication/Authorization errors: Check credentials, tokens, and permission configurations.">>
    ELSE <<>>

RECURSIVE errorAdviceAll(_)
errorAdviceAll(es) ==
    IF es = <<>> THEN <<>>
    ELSE errorAdvice(Head(es)) \o errorAdviceAll(Tail(es))

\* errors.slice(0, 3)
firstThree(es) == SubSeq(es, 1, IF Len(es) < 3 THEN Len(es) ELSE 3)

errorAdvisories(es) == errorAdviceAll(firstThree(es))

metricAdvisoriesInclusive(m) ==
    (IF ~RatLess(m.errorRate, RatOfInt(1)) /\ ~RatGtInt(m.errorRate, 5)
       THEN <<"Monitor error trends: Error rate is slightly elevated. Set up alerts to catch increases early.">>
       ELSE <<>>)
    \o (IF m.percentile95 * m.averageResponseTime[2]
            >= 2 * m.averageResponseTime[1]
       THEN <<"Inconsistent response times: Consider implementing request queuing or load balancing to stabilize performance.">>
       ELSE <<>>)
    \o (IF ~RatGtInt(m.throughput, 10)
       THEN <<"Low throughput detected: Consider horizontal scaling, optimizing resource usage, or increasing connection pools.">>
       ELSE <<>>)

\* the three checks on the summary
metricAdvisories(m) ==
    (IF RatGtInt(m.errorRate, 1) /\ ~RatGtInt(m.errorRate, 5)
       THEN <<"Monitor error trends: Error rate is slightly elevated. Set up alerts to catch increases early.">>
       ELSE <<>>)
    \o (IF m.percentile95 * m.averageResponseTime[2]
            > 2 * m.averageResponseTime[1]
       THEN <<"Inconsistent response times: Consider implementing request queuing or load balancing to stabilize performance.">>
       ELSE <<>>)
    \o (IF RatLess(m.throughput, RatOfInt(10))
       THEN <<"Low throughput detected: Consider horizontal scaling, optimizing resource usage, or increasing connection pools.">>
       ELSE <<>>)

fallbackAlways(recs) ==
    Append(recs, "Performance looks good! Continue monitoring and consider stress testing with higher loads.")

\* if (recommendations.length === 0) push the positive message
fallback(recs) ==
    IF Len(recs) = 0
    THEN <<"Performance looks good! Continue monitoring and consider stress testing with higher loads.">>
    ELSE recs

generateRecommendations(m, bs, es) ==
    fallback(bottleneckAdvisories(bs) \o errorAdvisories(es)
             \o metricAdvisories(m))

---------------------------------------------------------------------------
(* generateTimeSeriesData *)

\* intervalMs: number = 10000
DefaultIntervalMs == 10000

\* let time = minTime
seriesStart(rs) == MinSeq(Timestamps(rs))

seriesContinueStrict(t, rs) == t < MaxSeq(Timestamps(rs))

\* time <= maxTime
seriesContinue(t, rs) == t <= MaxSeq(Timestamps(rs))

\* results.filter(r => r.timestamp >= time && r.timestamp < time + intervalMs)
intervalResults(rs, t, interval) ==
    Filter(rs, LAMBDA r : r.timestamp >= t /\ r.timestamp < t + interval)

seriesPointAtWindowEnd(t, rs, interval) ==
    [ timestamp     |-> t + interval,
      responseTime  |-> average(Elapsed(rs)),
      throughput    |-> Rat(Len(rs) * 1000, interval),
      activeThreads |-> MaxSeq(Map(rs, LAMBDA r : r.allThreads)),
      errorCount    |-> Len(Failed(rs)) ]

\* timeSeriesData.push({ timestamp: time, ... })
seriesPoint(t, rs, interval) ==
    [ timestamp     |-> t,
      responseTime  |-> average(Elapsed(rs)),
      throughput    |-> Rat(Len(rs) * 1000, interval),
      activeThreads |-> MaxSeq(Map(rs, LAMBDA r : r.allThreads)),
      errorCount    |-> Len(Failed(rs)) ]

\* the body of the for loop: push a point when the window has samples
seriesPush(data, rs, t, interval) ==
    LET inWindow == intervalResults(rs, t, interval)
    IN  IF Len(inWindow) > 0
        THEN Append(data, seriesPoint(t, inWindow, interval))
        ELSE data

---------------------------------------------------------------------------
(* parseCsvResults: strings are sequences of one-character strings *)

\* the characters String.prototype.trim removes
IsSpace(c) == c \in {" ", "\t", "\r", "\n"}

RECURSIVE TrimStart(_)
TrimStart(str) ==
    IF str # <<>> /\ IsSpace(Head(str)) THEN TrimStart(Tail(str)) ELSE str

RECURSIVE TrimEnd(_)
TrimEnd(str) ==
    IF str # <<>> /\ IsSpace(str[Len(str)])
    THEN TrimEnd(SubSeq(str, 1, Len(str) - 1))
    ELSE str

\* str.trim()
Trim(str) == TrimEnd(TrimStart(str))

RECURSIVE SplitFrom(_, _, _, _)
SplitFrom(str, sep, i, current) ==
    IF i > Len(str) THEN <<current>>
    ELSE IF str[i] = sep
         THEN <<current>> \o SplitFrom(str, sep, i + 1, <<>>)
         ELSE SplitFrom(str, sep, i + 1, Append(current, str[i]))

\* str.split(sep) for a one-character separator
Split(str, sep) == SplitFrom(str, sep, 1, <<>>)

RECURSIVE parseCsvLineFrom(_, _, _, _)
parseCsvLineFrom(line, i, current, inQuotes) ==
    IF i > Len(line) THEN <<Trim(current)>>
    ELSE IF line[i] = "\""
         THEN parseCsvLineFrom(line, i + 1, current, ~inQuotes)
    ELSE IF line[i] = "," /\ ~inQuotes
         THEN <<Trim(current)>> \o parseCsvLineFrom(line, i + 1, <<>>, inQuotes)
    ELSE parseCsvLineFrom(line, i + 1, Append(current, line[i]), inQuotes)

parseCsvLineNaive(line) == Map(Split(line, ","), Trim)

parseCsvLine(line) == parseCsvLineFrom(line, 1, <<>>, FALSE)

\* headers.forEach((header, index) => row[header] = values[index] || '');
\* a header that occurs twice keeps its last value
csvRow(headers, values) ==
    [ h \in {headers[k] : k \in 1..Len(headers)} |->
        LET last == CHOOSE k \in 1..Len(headers) :
                        /\ headers[k] = h
                        /\ \A m \in (k + 1)..Len(headers) : headers[m] # h
        IN  IF last <= Len(values) THEN values[last] ELSE <<>> ]

\* the value of a property the row does not have
Undefined == <<"undefined">>

\* row.name
rowField(row, name) == IF name \in DOMAIN row THEN row[name] ELSE Undefined

IsDigit(c) == \E k \in 1..10 : Digit[k] = c

DigitValue(c) == (CHOOSE k \in 1..10 : Digit[k] = c) - 1

RECURSIVE parseDigits(_, _, _)
parseDigits(str, i, acc) ==
    IF i <= Len(str) /\ IsDigit(str[i])
    THEN parseDigits(str, i + 1, 10 * acc + DigitValue(str[i]))
    ELSE acc

\* parseInt(value) || other, for decimal text: leading white space, an
\* optional sign, then digits up to the first other character; text with no
\* digit there is NaN, and NaN and 0 both give way to other
parseIntOr(value, other) ==
    LET str      == TrimStart(value)
        signed   == str # <<>> /\ Head(str) \in {"-", "+"}
        digits   == IF signed THEN Tail(str) ELSE str
        parsed   == parseDigits(digits, 1, 0)
        result   == IF signed /\ Head(str) = "-" THEN 0 - parsed ELSE parsed
    IN  IF value = Undefined \/ digits = <<>> \/ ~IsDigit(Head(digits))
           \/ result = 0
        THEN other
        ELSE result

\* value || other for a string value
stringOr(value, other) ==
    IF value = Undefined \/ value = <<>> THEN other ELSE value

timeStampName       == <<"t", "i", "m", "e", "S", "t", "a", "m", "p">>
elapsedName         == <<"e", "l", "a", "p", "s", "e", "d">>
labelName           == <<"l", "a", "b", "e", "l">>
responseCodeName    == <<"r", "e", "s", "p", "o", "n", "s", "e", "C", "o", "d", "e">>
responseMessageName == <<"r", "e", "s", "p", "o", "n", "s", "e",
                         "M", "e", "s", "s", "a", "g", "e">>
successName         == <<"s", "u", "c", "c", "e", "s", "s">>
allThreadsName      == <<"a", "l", "l", "T", "h", "r", "e", "a", "d", "s">>
UnknownLabel        == <<"U", "n", "k", "n", "o", "w", "n">>
TrueText            == <<"t", "r", "u", "e">>

\* the JTLResult pushed for one row (the fields the analysis stages read)
csvResult(row) ==
    [ timestamp       |-> parseIntOr(rowField(row, timeStampName), 0),
      elapsed         |-> parseIntOr(rowField(row, elapsedName), 0),
      label           |-> stringOr(rowField(row, labelName), UnknownLabel),
      responseCode    |-> stringOr(rowField(row, responseCodeName), <<>>),
      responseMessage |-> stringOr(rowField(row, responseMessageName), <<>>),
      success         |-> rowField(row, successName) = TrueText,
      allThreads      |-> parseIntOr(rowField(row, allThreadsName), 0) ]

\* content.split('\n').filter(line => line.trim())
csvLines(text) == Filter(Split(text, "\n"), LAMBDA line : Trim(line) # <<>>)

\* lines[0].split(',').map(h => h.trim())
csvHeaders(lines) == Map(Split(lines[1], ","), Trim)

\* the row objects of the loop over lines[1..]; parseCsvLine never returns
\* an empty array, so no line is skipped
parseCsvRows(text) ==
    LET lines == csvLines(text)
    IN  IF Len(lines) = 0 THEN <<>>
        ELSE [ j \in 1..(Len(lines) - 1) |->
                 csvRow(csvHeaders(lines), parseCsvLine(lines[j + 1])) ]

parseCsvResults(text) == Map(parseCsvRows(text), csvResult)

---------------------------------------------------------------------------
(* parseXmlResults: attribute values are JavaScript values of four kinds *)

JsNumber(n)  == [kind |-> "number",  num |-> n, str |-> <<>>, bool |-> FALSE]
JsString(cs) == [kind |-> "string",  num |-> 0, str |-> cs,   bool |-> FALSE]
JsBoolean(b) == [kind |-> "boolean", num |-> 0, str |-> <<>>, bool |-> b]
JsUndefined  == [kind |-> "undefined", num |-> 0, str |-> <<>>, bool |-> FALSE]

\* ToBoolean, as the operator || applies it
Truthy(v) ==
    CASE v.kind = "number"  -> v.num # 0
      [] v.kind = "string"  -> v.str # <<>>
      [] v.kind = "boolean" -> v.bool
      [] OTHER              -> FALSE

\* a || b
jsOr(a, b) == IF Truthy(a) THEN a ELSE b

\* text made of an optional minus sign and decimal digits
IsIntegerText(text) ==
    LET digits == IF text # <<>> /\ Head(text) = "-" THEN Tail(text) ELSE text
    IN  /\ digits # <<>>
        /\ \A k \in 1..Len(digits) : IsDigit(digits[k])

FalseText == <<"f", "a", "l", "s", "e">>

\* the XMLParser option parseAttributeValue: true turns the text of an
\* attribute into a number or a boolean when it reads as one
parseAttributeValue(text) ==
    IF text = Undefined THEN JsUndefined
    ELSE IF text = TrueText THEN JsBoolean(TRUE)
    ELSE IF text = FalseText THEN JsBoolean(FALSE)
    ELSE IF IsIntegerText(text) THEN JsNumber(parseIntOr(text, 0))
    ELSE JsString(text)

\* the object the parser builds for one sample element
xmlSample(element) ==
    [ name \in DOMAIN element |-> parseAttributeValue(element[name]) ]

\* sample.name
xmlAttr(sample, name) ==
    IF name \in DOMAIN sample THEN sample[name] ELSE JsUndefined

\* parseInt(value) || other: parseInt reads the value's text, so an integer
\* number comes back as itself and a boolean or undefined as NaN
xmlParseIntOr(value, other) ==
    CASE value.kind = "number" -> IF value.num = 0 THEN other ELSE value.num
      [] value.kind = "string" -> parseIntOr(value.str, other)
      [] OTHER                 -> other

\* the JTLResult mapped from one sample (the fields the properties read)
xmlResult(sample) ==
    [ timestamp |-> xmlParseIntOr(xmlAttr(sample, "t"),
                        xmlParseIntOr(xmlAttr(sample, "ts"), 0)),
      elapsed   |-> xmlParseIntOr(xmlAttr(sample, "t"), 0),
      label     |-> jsOr(xmlAttr(sample, "lb"),
                         jsOr(xmlAttr(sample, "label"), JsString(UnknownLabel))),
      success   |-> \/ xmlAttr(sample, "s") = JsString(TrueText)
                    \/ xmlAttr(sample, "success") = JsString(TrueText) ]

\* sampleArray.map(sample => ({...})) on the parsed elements
parseXmlResults(elements) ==
    [ k \in 1..Len(elements) |-> xmlResult(xmlSample(elements[k])) ]

---------------------------------------------------------------------------
(* executeTest and executeDistributedTest (src/src/executor.ts) *)

\* the code argument of the 'close' event: a number, or null when a signal
\* ended the process
ExitCode(n) == [null |-> FALSE, n |-> n]
NullCode    == [null |-> TRUE, n |-> 0]

\* the value a promise is fulfilled with
ExecResult(ok, out, err, code) ==
    [success |-> ok, stdout |-> out, stderr |-> err, exitCode |-> code]

Pending == [state |-> "pending", value |-> ExecResult(FALSE, "", "", 0)]

\* resolve(value): the first call settles the promise, later calls do
\* nothing
resolve(p, value) ==
    IF p.state = "pending" THEN [state |-> "fulfilled", value |-> value]
    ELSE p

\* the value the 'close' listener resolves with
closeResult(code, out, err) ==
    ExecResult(~code.null /\ code.n = 0, out, err,
               IF code.null \/ code.n = 0 THEN 0 ELSE code.n)

\* the value executeTest's 'error' listener resolves with
errorResult(out, err, message) ==
    ExecResult(FALSE, out, err \o "\n" \o message, 1)

NoProcess ==
    [phase |-> "none", failed |-> FALSE, errored |-> FALSE, chunks |-> 0]

\* spawn(binary, args): the process starts, or it fails to start
Spawned(fails) ==
    [phase |-> "running", failed |-> fails, errored |-> FALSE, chunks |-> 0]

\* executeTest registers an 'error' listener, executeDistributedTest none
hasErrorListener(method) == method = "executeTest"

---------------------------------------------------------------------------
(* setProperty (src/src/executor.ts); text is a sequence of characters *)

\* str.startsWith(prefix)
startsWith(str, prefix) ==
    /\ Len(prefix) <= Len(str)
    /\ SubSeq(str, 1, Len(prefix)) = prefix

\* key + '='
propertyPrefix(key) == key \o <<"=">>

\* `${key}=${value}`
propertyLine(key, value) == key \o <<"=">> \o value

\* no file at the path: readFile throws
NoFile == <<"ENOENT">>

\* '# User-defined JMeter properties\n'
DefaultProperties ==
    <<"#", " ", "U", "s", "e", "r", "-", "d", "e", "f", "i", "n", "e", "d",
      " ", "J", "M", "e", "t", "e", "r", " ", "p", "r", "o", "p", "e", "r",
      "t", "i", "e", "s", "\n">>

\* the content read, or the default when readFile throws: there is no file,
\* or the file is there and the read fails
readProperties(file, readable) ==
    IF file = NoFile \/ ~readable THEN DefaultProperties ELSE file

\* the index of the first line the loop replaces, 0 when it finds none
RECURSIVE firstPropertyLine(_, _, _)
firstPropertyLine(lines, key, i) ==
    IF i > Len(lines) THEN 0
    ELSE IF startsWith(Trim(lines[i]), propertyPrefix(key)) THEN i
    ELSE firstPropertyLine(lines, key, i + 1)

joinLines(lines) ==
    IF Len(lines) = 0 THEN <<>>
    ELSE LET RECURSIVE from(_)
             from(i) == IF i = Len(lines) THEN lines[i]
                        ELSE lines[i] \o <<"\n">> \o from(i + 1)
         IN  from(1)

\* the text setProperty writes: lines.join('\n') after the replacement or
\* the push
setPropertyText(text, key, value) ==
    LET lines == Split(text, "\n")
        found == firstPropertyLine(lines, key, 1)
    IN  joinLines(IF found > 0
                  THEN [lines EXCEPT ![found] = propertyLine(key, value)]
                  ELSE Append(lines, propertyLine(key, value)))

NoArgs == [key |-> <<>>, value |-> <<>>]

NoSetResult == [success |-> FALSE, message |-> <<>>]

\* { success: true, message: `Property ${key} set to ${value}` }
setPropertySuccess(key, value) ==
    [success |-> TRUE, message |-> <<"Property ", key, " set to ", value>>]

\* { success: false, message: error.message }
setPropertyFailure(message) == [success |-> FALSE, message |-> <<message>>]

---------------------------------------------------------------------------
(* Inputs *)

\* all sequences over S of length at most n
RECURSIVE SeqsUpTo(_, _)
SeqsUpTo(S, n) ==
    IF n = 0 THEN {<<>>}
    ELSE LET shorter == SeqsUpTo(S, n - 1)
         IN  shorter \cup {Append(s, x) : s \in shorter, x \in S}

\* a JTLResult; the fields no analysis stage reads (threadName, dataType,
\* failureMessage, grpThreads, idleTime) are left out
Sample(ts, el, lb, rc, rm, ok) ==
    [ timestamp |-> ts, elapsed |-> el, label |-> lb, responseCode |-> rc,
      responseMessage |-> rm, success |-> ok, bytes |-> 1024,
      sentBytes |-> 512, allThreads |-> 1, latency |-> 10, connect |-> 5 ]

StatSamples == { Sample(0, el, "A", "200", "OK", TRUE) : el \in {10, 20, 30, 40} }

AggSamples ==
    { Sample(ts, 100, "A", "200", "OK", TRUE) : ts \in {0, 500, 2000} }
    \cup { Sample(0, el, lb, "200", "OK", TRUE) :
             el \in {100, 200}, lb \in {"A", "10", "2"} }

ErrSamples ==
    { Sample(0, 100, lb, "200", "OK", TRUE) : lb \in {"A", "B"} }
    \cup { Sample(0, 100, lb, cm[1], cm[2], FALSE) :
             lb \in {"A", "B"},
             cm \in {<<"404", "x">>, <<"4-0", "x">>, <<"4", "0-x">>} }

AvgValues  == {<<100, 1>>, <<2000, 1>>, <<4001, 2>>, <<3000, 1>>,
               <<3001, 1>>, <<5000, 1>>, <<5001, 1>>}
RateValues == {<<0, 1>>, <<5, 1>>, <<100, 19>>, <<10, 1>>, <<100, 9>>,
               <<20, 1>>, <<25, 1>>}
P95Values  == {100, 1000, 1001, 2000, 2001, 3000, 3001}

EndpointInput(lb, avg, rate, p95) ==
    [ label |-> lb, samples |-> 20, average |-> avg, median |-> 100,
      min |-> 100, max |-> 10000, percentile90 |-> 100,
      percentile95 |-> p95, percentile99 |-> 10000, errorRate |-> rate,
      throughput |-> Zero, receivedKBPerSec |-> Zero, sentKBPerSec |-> Zero ]

\* the endpoint metrics offered at position i: one metric varies while the
\* others stay below their thresholds, or all three are over them
EndpointInputs(i) ==
    LET lb == <<"A", "B", "C", "D">>[i]
    IN  { EndpointInput(lb, a, Zero, 100) : a \in AvgValues }
        \cup { EndpointInput(lb, <<100, 1>>, r, 100) : r \in RateValues }
        \cup { EndpointInput(lb, <<100, 1>>, Zero, q) : q \in P95Values }
        \cup { EndpointInput(lb, <<5001, 1>>, <<25, 1>>, 1001),
               EndpointInput(lb, <<4001, 2>>, <<100, 9>>, 3001) }

RECURSIVE EndpointSeqs(_)
EndpointSeqs(n) ==
    IF n = 0 THEN {<<>>}
    ELSE LET shorter == EndpointSeqs(n - 1)
         IN  shorter \cup { Append(s, e) :
                 s \in {t \in shorter : Len(t) = n - 1},
                 e \in EndpointInputs(n) }

\* a summary as generateRecommendations reads it
SummaryInput(rate, p95, avg, thr) ==
    [getEmptyMetrics EXCEPT !.totalRequests = 100, !.errorRate = rate,
                            !.percentile95 = p95,
                            !.averageResponseTime = avg, !.throughput = thr]

QuietSummary == SummaryInput(Zero, 600, <<500, 1>>, <<50, 1>>)

LoudSummary == SummaryInput(<<3, 2>>, 1001, <<500, 1>>, <<999, 100>>)

SummaryInputs ==
    { SummaryInput(rate, pa[1], pa[2], thr) :
        rate \in {<<0, 1>>, <<1, 1>>, <<3, 2>>, <<5, 1>>, <<6, 1>>},
        pa \in {<<600, <<500, 1>> >>, <<1000, <<500, 1>> >>,
                <<1001, <<500, 1>> >>},
        thr \in {<<50, 1>>, <<10, 1>>, <<999, 100>>} }

QuietEndpoint == EndpointInput("A", <<500, 1>>, Zero, 600)

BottleneckInputs ==
    { slowEndpointBottleneck(EndpointInput("A", <<5001, 1>>, Zero, 100)),
      endpointErrorBottleneck(EndpointInput("A", <<100, 1>>, <<25, 1>>, 100)),
      latencyBottleneck(EndpointInput("B", <<100, 1>>, Zero, 1001)),
      overallErrorBottleneck(SummaryInput(<<6, 1>>, 600, <<500, 1>>, <<50, 1>>)) }

ClusterInput(code) ==
    [ responseCode |-> code, responseMessage |-> "x", count |-> 1,
      percentage |-> <<1, 1>>, affectedEndpoints |-> <<"A">> ]

ClusterInputs ==
    { ClusterInput(code) :
        code \in {"500", "503", "404", "401", "403", "400", "57014"} }

SeriesSamples ==
    { Sample(ts, 100, "A", "200", "OK", ok) :
        ts \in {0, 500, 1000, 1700}, ok \in BOOLEAN }

SeriesIntervals == {600, 1000, DefaultIntervalMs}

AnyIntervals == SeriesIntervals \cup {0, 0 - 1000}

\* the encoded fields a producer writes: plain values, an empty value, and
\* quoted values that hold the delimiter (one with a doubled quote, one
\* with a leading blank)
CsvFields ==
    { <<"7">>, TrueText, <<>>,
      <<"\"", "a", ",", "b", "\"">>,
      <<"\"", "a", "\"", "\"", ",", "b", "\"">>,
      <<"\"", " ", "x", ",", "y", "\"">> }

CsvHeaderRows ==
    { <<labelName, elapsedName, successName>>,
      <<elapsedName, labelName, successName>> }

RECURSIVE Join(_, _)
Join(strs, sep) ==
    IF strs = <<>> THEN <<>>
    ELSE IF Len(strs) = 1 THEN strs[1]
    ELSE strs[1] \o <<sep>> \o Join(Tail(strs), sep)

\* the text of a log: the header line and one line per record
WriteCsv(log) ==
    Join(<<Join(log.header, ",")>>
            \o [j \in 1..Len(log.records) |-> Join(log.records[j], ",")],
         "\n") \o <<"\n">>

CsvLogs ==
    [ header  : CsvHeaderRows,
      records : SeqsUpTo([1..3 -> CsvFields], MaxRecords) ]

NoLog == [header |-> <<>>, records |-> <<>>]

\* sample elements: elapsed time t, timestamp ts, label lb and success
\* flag s, each absent or given as text
XmlElements ==
    [ t  : {Undefined, <<"1", "2", "0">>, <<"0">>, <<"-", "5">>},
      ts : {Undefined, <<"9", "0", "0", "0">>},
      lb : {Undefined, <<"A">>, <<"0">>},
      s  : {Undefined, TrueText} ]

\* samples that differ in every field the stages read, not in sorted order
StageSamples ==
    { Sample(1000, 6000, "B", "500", "E", FALSE),
      Sample(0, 100, "A", "200", "OK", TRUE),
      Sample(2500, 3000, "A", "404", "NF", FALSE),
      Sample(0, 100, "B", "200", "OK", TRUE) }

\* lines of a properties file: the key a, the key ab, an indented and a
\* commented line for a, another key, an empty line
PropertyLines ==
    { <<"a", "=", "1">>, <<"a", "b", "=", "2">>, <<" ", "a", "=", "3">>,
      <<"#", "a", "=", "4">>, <<"b", "=", "5">>, <<>> }

PropertyFiles ==
    {NoFile} \cup { Join(ls, "\n") : ls \in SeqsUpTo(PropertyLines, MaxLines) }

PropertyKeys == { <<"a">>, <<"a", "b">>, <<"c">> }

PropertyValues == { <<"9">> }

\* the orders in which the elements of a set can arrive
RECURSIVE Orderings(_)
Orderings(S) ==
    IF S = {} THEN {<<>>}
    ELSE UNION { {<<x>> \o rest : rest \in Orderings(S \ {x})} : x \in S }

\* four samples labelled "X" with elapsed 100, 200, 300 and 10000 in any
\* order, one of them failed with code "500", all at one instant or one
\* second apart
ScenarioInputs ==
    { [i \in 1..4 |->
         Sample((i - 1) * gap, order[i], "X",
                IF i = bad THEN "500" ELSE "200",
                IF i = bad THEN "Internal Server Error" ELSE "OK",
                i # bad)] :
        order \in Orderings({100, 200, 300, 10000}),
        bad \in 1..4, gap \in {0, 1000} }

---------------------------------------------------------------------------
(* Operations *)

\* contents of the result variables before the method has returned once
NoNumber  == -1
NoRat     == <<-1, 1>>
NoMetrics == [getEmptyMetrics EXCEPT !.totalRequests = NoNumber]

StatIdle ==
    /\ numbers = <<>> /\ pctArg = 0 /\ avgOut = NoRat /\ pctOut = NoNumber

\* generateTimeSeriesData not called; intervalMs holds its default
SeriesIdle ==
    /\ intervalMs = DefaultIntervalMs /\ time = 0 /\ timeSeriesData = <<>>
    /\ seriesPc = "idle" /\ seriesOut = <<>>

\* parseCsvResults not called
CsvIdle ==
    /\ written = NoLog /\ content = <<>>
    /\ csvRows = <<>> /\ csvResults = <<>>

\* parseXmlResults not called
XmlIdle == xmlSource = <<>> /\ xmlResults = <<>>

\* no executor method called
ExecIdle ==
    /\ execMethod = "none" /\ proc = NoProcess
    /\ stdout = "" /\ stderr = "" /\ promise = Pending

\* setProperty not called, no user.properties file
PropIdle ==
    /\ propsFile = NoFile /\ setArgs = NoArgs /\ setResult = NoSetResult

ExtIdle ==
    /\ recommendations = <<>>
    /\ SeriesIdle
    /\ CsvIdle
    /\ XmlIdle
    /\ ExecIdle
    /\ PropIdle

OutputsIdle ==
    /\ errors = <<>> /\ bottlenecks = <<>> /\ called = {}
    /\ ExtIdle

Average ==
    /\ avgOut' = average(numbers)
    /\ called' = called \cup {"average"}
    /\ UNCHANGED <<numbers, pctArg, pctOut>>
    /\ UNCHANGED analysisVars
    /\ UNCHANGED extVars

Percentile ==
    /\ pctOut' = percentile(numbers, pctArg)
    /\ called' = called \cup {"percentile"}
    /\ UNCHANGED <<numbers, pctArg, avgOut>>
    /\ UNCHANGED analysisVars
    /\ UNCHANGED extVars

CalculateMetrics ==
    /\ metrics' = calculateMetrics(results)
    /\ called' = called \cup {"calculateMetrics"}
    /\ results' = argumentAfterSort(results)
    /\ UNCHANGED <<endpointMetrics, errors, bottlenecks>>
    /\ UNCHANGED statVars
    /\ UNCHANGED extVars

CalculateEndpointMetrics ==
    /\ endpointMetrics' = calculateEndpointMetrics(results)
    /\ called' = called \cup {"calculateEndpointMetrics"}
    /\ results' = argumentAfterSort(results)
    /\ UNCHANGED <<metrics, errors, bottlenecks>>
    /\ UNCHANGED statVars
    /\ UNCHANGED extVars

AnalyzeErrors ==
    /\ errors' = analyzeErrors(results)
    /\ called' = called \cup {"analyzeErrors"}
    /\ UNCHANGED <<results, metrics, endpointMetrics, bottlenecks>>
    /\ UNCHANGED statVars
    /\ UNCHANGED extVars

IdentifyBottlenecks ==
    /\ bottlenecks' = identifyBottlenecks(metrics, endpointMetrics)
    /\ called' = called \cup {"identifyBottlenecks"}
    /\ UNCHANGED <<results, metrics, endpointMetrics, errors>>
    /\ UNCHANGED statVars
    /\ UNCHANGED extVars

GenerateRecommendations ==
    /\ recommendations' = generateRecommendations(metrics, bottlenecks, errors)
    /\ called' = called \cup {"generateRecommendations"}
    /\ UNCHANGED analysisVars
    /\ UNCHANGED statVars
    /\ UNCHANGED seriesVars
    /\ UNCHANGED csvVars
    /\ UNCHANGED xmlVars
    /\ UNCHANGED execVars
    /\ UNCHANGED propVars

\* analyzeResults computes the bottlenecks before the recommendations
IdentifyBottlenecksFirst ==
    /\ "generateRecommendations" \notin called
    /\ IdentifyBottlenecks

\* generateTimeSeriesData up to the for loop
SeriesCall ==
    /\ IF Len(results) = 0
       THEN /\ seriesPc' = "done"
            /\ seriesOut' = <<>>
            /\ called' = called \cup {"generateTimeSeriesData"}
            /\ UNCHANGED time
       ELSE /\ seriesPc' = "loop"
            /\ time' = seriesStart(results)
            /\ UNCHANGED <<called, seriesOut>>
    /\ timeSeriesData' = <<>>
    /\ UNCHANGED <<intervalMs, recommendations>>
    /\ UNCHANGED analysisVars
    /\ UNCHANGED statVars
    /\ UNCHANGED csvVars
    /\ UNCHANGED xmlVars
    /\ UNCHANGED execVars
    /\ UNCHANGED propVars

\* the first call
SeriesBegin == seriesPc = "idle" /\ SeriesCall

\* a later call, after an earlier one returned
SeriesAgain == seriesPc = "done" /\ SeriesCall

\* the loop condition holds and the body is entered
SeriesTest ==
    /\ seriesPc = "loop"
    /\ seriesContinue(time, results)
    /\ seriesPc' = "body"
    /\ UNCHANGED <<intervalMs, time, timeSeriesData, seriesOut,
                   recommendations, called>>
    /\ UNCHANGED analysisVars
    /\ UNCHANGED statVars
    /\ UNCHANGED csvVars
    /\ UNCHANGED xmlVars
    /\ UNCHANGED execVars
    /\ UNCHANGED propVars

\* the body of the for loop and time += intervalMs; in a walk that moves
\* away from maxTime the value -MaxWalk stands for every time at or below
\* it (all of them pass the loop test and have an empty window)
SeriesStep ==
    /\ seriesPc = "body"
    /\ timeSeriesData' = seriesPush(timeSeriesData, results, time, intervalMs)
    /\ time' = Max2(time + intervalMs, 0 - MaxWalk)
    /\ seriesPc' = "loop"
    /\ UNCHANGED <<intervalMs, seriesOut, recommendations, called>>
    /\ UNCHANGED analysisVars
    /\ UNCHANGED statVars
    /\ UNCHANGED csvVars
    /\ UNCHANGED xmlVars
    /\ UNCHANGED execVars
    /\ UNCHANGED propVars

\* the loop condition fails and the method returns timeSeriesData
SeriesReturn ==
    /\ seriesPc = "loop"
    /\ ~seriesContinue(time, results)
    /\ seriesPc' = "done"
    /\ seriesOut' = timeSeriesData
    /\ called' = called \cup {"generateTimeSeriesData"}
    /\ UNCHANGED <<intervalMs, time, timeSeriesData, recommendations>>
    /\ UNCHANGED analysisVars
    /\ UNCHANGED statVars
    /\ UNCHANGED csvVars
    /\ UNCHANGED xmlVars
    /\ UNCHANGED execVars
    /\ UNCHANGED propVars

\* parseCsvResults on the content of a log
ParseCsvResults ==
    /\ "parseCsvResults" \notin called
    /\ csvRows' = parseCsvRows(content)
    /\ csvResults' = parseCsvResults(content)
    /\ called' = called \cup {"parseCsvResults"}
    /\ UNCHANGED <<written, content>>
    /\ UNCHANGED xmlVars
    /\ UNCHANGED execVars
    /\ UNCHANGED propVars
    /\ UNCHANGED <<recommendations, seriesVars>>
    /\ UNCHANGED analysisVars
    /\ UNCHANGED statVars

\* parseXmlResults on the sample elements of a document
ParseXmlResults ==
    /\ "parseXmlResults" \notin called
    /\ xmlResults' = parseXmlResults(xmlSource)
    /\ called' = called \cup {"parseXmlResults"}
    /\ UNCHANGED xmlSource
    /\ UNCHANGED execVars
    /\ UNCHANGED propVars
    /\ UNCHANGED <<recommendations, seriesVars, csvVars>>
    /\ UNCHANGED analysisVars
    /\ UNCHANGED statVars

\* identifyBottlenecks once both of its arguments have been computed
StageBottlenecks ==
    /\ {"calculateMetrics", "calculateEndpointMetrics"} \subseteq called
    /\ IdentifyBottlenecks

\* generateRecommendations once its three arguments have been computed
StageRecommendations ==
    /\ {"calculateMetrics", "identifyBottlenecks", "analyzeErrors"}
          \subseteq called
    /\ GenerateRecommendations

\* an executor method builds its promise, spawns the process and
\* registers its listeners
ExecuteCall(method) ==
    /\ execMethod = "none"
    /\ execMethod' = method
    /\ \E fails \in BOOLEAN : proc' = Spawned(fails)
    /\ stdout' = "" /\ stderr' = ""
    /\ promise' = Pending
    /\ UNCHANGED called
    /\ UNCHANGED <<recommendations, seriesVars, csvVars, xmlVars>>
    /\ UNCHANGED propVars
    /\ UNCHANGED analysisVars
    /\ UNCHANGED statVars

ExecuteTest == ExecuteCall("executeTest")

ExecuteDistributedTest == ExecuteCall("executeDistributedTest")

\* what no event of the process touches
ExecFrame ==
    /\ UNCHANGED <<execMethod, called>>
    /\ UNCHANGED <<recommendations, seriesVars, csvVars, xmlVars>>
    /\ UNCHANGED propVars
    /\ UNCHANGED analysisVars
    /\ UNCHANGED statVars

\* process.stdout.on('data', ...)
StdoutData ==
    /\ proc.phase = "running" /\ ~proc.failed
    /\ proc.chunks < MaxChunks
    /\ stdout' = stdout \o "o"
    /\ proc' = [proc EXCEPT !.chunks = @ + 1]
    /\ UNCHANGED <<stderr, promise>>
    /\ ExecFrame

\* process.stderr.on('data', ...)
StderrData ==
    /\ proc.phase = "running" /\ ~proc.failed
    /\ proc.chunks < MaxChunks
    /\ stderr' = stderr \o "e"
    /\ proc' = [proc EXCEPT !.chunks = @ + 1]
    /\ UNCHANGED <<stdout, promise>>
    /\ ExecFrame

\* the 'close' listener on the event with the given code
OnClose(code) ==
    /\ proc' = [proc EXCEPT !.phase = "closed"]
    /\ promise' = resolve(promise, closeResult(code, stdout, stderr))
    /\ UNCHANGED <<stdout, stderr>>
    /\ ExecFrame

\* the 'error' listener where one is registered; without one the emitter
\* throws the error and no listener runs
OnError(message) ==
    /\ proc' = [proc EXCEPT !.errored = TRUE]
    /\ promise' = IF hasErrorListener(execMethod)
                  THEN resolve(promise, errorResult(stdout, stderr, message))
                  ELSE promise
    /\ UNCHANGED <<stdout, stderr>>
    /\ ExecFrame

\* a started process ends: with a code, or with null after a signal
ProcessClose ==
    /\ proc.phase = "running" /\ ~proc.failed
    /\ \E code \in {ExitCode(0), ExitCode(1), NullCode} : OnClose(code)

\* a started process emits 'error' (a signal or message could not be sent)
ProcessError ==
    /\ proc.phase = "running" /\ ~proc.failed /\ ~proc.errored
    /\ OnError("kill EPERM")

\* a process that failed to start emits 'error'
SpawnError ==
    /\ proc.phase = "running" /\ proc.failed /\ ~proc.errored
    /\ OnError("spawn ENOENT")

\* after a failed start 'close' may follow the 'error' event, with the
\* negative error number as its code
CloseAfterSpawnError ==
    /\ proc.phase = "running" /\ proc.failed /\ proc.errored
    /\ OnClose(ExitCode(0 - 2))

\* setProperty(key, value): readFile returns the text or throws, then the
\* file is written, or writeFile throws and the file stays as it was
SetProperty ==
    /\ \E key \in PropertyKeys, value \in PropertyValues,
          readable \in BOOLEAN, written_ok \in BOOLEAN :
          /\ setArgs' = [key |-> key, value |-> value]
          /\ IF written_ok
             THEN /\ propsFile' = setPropertyText(
                                     readProperties(propsFile, readable),
                                     key, value)
                  /\ setResult' = setPropertySuccess(key, value)
             ELSE /\ propsFile' = propsFile
                  /\ setResult' = setPropertyFailure("EACCES")
    /\ called' = called \cup {"setProperty"}
    /\ UNCHANGED <<recommendations, seriesVars, csvVars, xmlVars, execVars>>
    /\ UNCHANGED analysisVars
    /\ UNCHANGED statVars

\* analyzeResults calls the stages one after the other, each on the
\* values the earlier ones returned
AnalyzeStages ==
    <<"calculateMetrics", "calculateEndpointMetrics", "analyzeErrors",
      "identifyBottlenecks", "generateRecommendations">>

StagesBefore(k) == {AnalyzeStages[i] : i \in 1..(k - 1)}

StepMetrics == called = StagesBefore(1) /\ CalculateMetrics

StepEndpointMetrics == called = StagesBefore(2) /\ CalculateEndpointMetrics

StepErrors == called = StagesBefore(3) /\ AnalyzeErrors

StepBottlenecks == called = StagesBefore(4) /\ IdentifyBottlenecks

StepRecommendations == called = StagesBefore(5) /\ GenerateRecommendations

---------------------------------------------------------------------------
(* Specifications *)

\* the statistics helpers on the sorted response times of a sample
\* sequence, with any percentile argument, and the summary built from them
InitStats ==
    /\ results \in SeqsUpTo(StatSamples, MaxLen)
    /\ numbers = SortAscending(Elapsed(results))
    /\ pctArg \in 0..100
    /\ avgOut = NoRat /\ pctOut = NoNumber
    /\ metrics = NoMetrics /\ endpointMetrics = <<>>
    /\ OutputsIdle

NextStats == Average \/ Percentile \/ CalculateMetrics

SpecStats == InitStats /\ [][NextStats]_vars

\* the aggregator on samples that differ in timestamp, label and elapsed
InitAggregate ==
    /\ results \in SeqsUpTo(AggSamples, MaxLen)
    /\ metrics = NoMetrics /\ endpointMetrics = <<>>
    /\ StatIdle /\ OutputsIdle

NextAggregate == CalculateMetrics \/ CalculateEndpointMetrics

SpecAggregate == InitAggregate /\ [][NextAggregate]_vars

\* the error analyzer next to the summary of the same samples
InitErrors ==
    /\ results \in SeqsUpTo(ErrSamples, MaxLen)
    /\ metrics = NoMetrics /\ endpointMetrics = <<>>
    /\ StatIdle /\ OutputsIdle

NextErrors == CalculateMetrics \/ AnalyzeErrors

SpecErrors == InitErrors /\ [][NextErrors]_vars

\* the classifier on caller-supplied summary and endpoint metrics
InitBottlenecks ==
    /\ results = <<>>
    /\ \E r \in RateValues : metrics = [getEmptyMetrics EXCEPT !.errorRate = r]
    /\ endpointMetrics \in EndpointSeqs(MaxEndpoints)
    /\ StatIdle /\ OutputsIdle

NextBottlenecks == IdentifyBottlenecks

SpecBottlenecks == InitBottlenecks /\ [][NextBottlenecks]_vars

\* the recommendation engine on caller-supplied summary, bottlenecks and
\* error clusters: every summary with every short bottleneck list, a quiet
\* and a loud summary with every cluster list, and the quiet summary with
\* its endpoint metrics before the classifier has run
InitRecommendations ==
    /\ results = <<>>
    /\ \/ /\ metrics \in SummaryInputs
          /\ endpointMetrics = <<>>
          /\ bottlenecks \in SeqsUpTo(BottleneckInputs, MaxBottlenecks)
          /\ errors \in {<<>>, <<ClusterInput("400")>>, <<ClusterInput("500")>>}
       \/ /\ metrics \in {QuietSummary, LoudSummary}
          /\ endpointMetrics = <<>>
          /\ bottlenecks \in SeqsUpTo({slowEndpointBottleneck(
                   EndpointInput("A", <<5001, 1>>, Zero, 100))}, 1)
          /\ errors \in SeqsUpTo(ClusterInputs, MaxClusters)
       \/ /\ metrics = QuietSummary
          /\ endpointMetrics = <<QuietEndpoint>>
          /\ bottlenecks = <<>>
          /\ errors = <<>>
    /\ called = {}
    /\ StatIdle /\ ExtIdle

NextRecommendations == IdentifyBottlenecksFirst \/ GenerateRecommendations

SpecRecommendations == InitRecommendations /\ [][NextRecommendations]_vars

\* the bucketer on samples at a few instants with a caller-chosen interval
InitSeries ==
    /\ results \in SeqsUpTo(SeriesSamples, MaxLen)
    /\ intervalMs \in SeriesIntervals
    /\ time = 0 /\ timeSeriesData = <<>> /\ seriesPc = "idle"
    /\ seriesOut = <<>>
    /\ CsvIdle /\ XmlIdle /\ ExecIdle
    /\ PropIdle
    /\ metrics = NoMetrics /\ endpointMetrics = <<>>
    /\ errors = <<>> /\ bottlenecks = <<>> /\ recommendations = <<>>
    /\ called = {}
    /\ StatIdle

NextSeries == SeriesBegin \/ SeriesTest \/ SeriesStep \/ SeriesReturn

SpecSeries == InitSeries /\ [][NextSeries]_vars

\* the bucketer with any interval a caller can pass, zero and negative
\* ones included; the call runs to its end without being interrupted, so
\* every step that can be taken is taken
InitSeriesAny ==
    /\ results \in SeqsUpTo(SeriesSamples, MaxLen)
    /\ intervalMs \in AnyIntervals
    /\ time = 0 /\ timeSeriesData = <<>> /\ seriesPc = "idle"
    /\ seriesOut = <<>>
    /\ CsvIdle /\ XmlIdle /\ ExecIdle
    /\ PropIdle
    /\ metrics = NoMetrics /\ endpointMetrics = <<>>
    /\ errors = <<>> /\ bottlenecks = <<>> /\ recommendations = <<>>
    /\ called = {}
    /\ StatIdle

SpecSeriesLive ==
    InitSeriesAny /\ [][NextSeries]_vars /\ WF_vars(NextSeries)

\* the delimited parser on logs of up to MaxRecords three-column records
InitCsv ==
    /\ written \in CsvLogs
    /\ content = WriteCsv(written)
    /\ csvRows = <<>> /\ csvResults = <<>>
    /\ results = <<>>
    /\ metrics = NoMetrics /\ endpointMetrics = <<>>
    /\ errors = <<>> /\ bottlenecks = <<>> /\ recommendations = <<>>
    /\ called = {}
    /\ StatIdle /\ SeriesIdle /\ XmlIdle /\ ExecIdle
    /\ PropIdle

NextCsv == ParseCsvResults

SpecCsv == InitCsv /\ [][NextCsv]_vars

\* the two parsers: a structured document of up to MaxElements sample
\* elements, or a delimited log
InitParse ==
    \/ /\ xmlSource \in SeqsUpTo(XmlElements, MaxElements)
       /\ xmlResults = <<>>
       /\ CsvIdle
       /\ results = <<>>
       /\ metrics = NoMetrics /\ endpointMetrics = <<>>
       /\ errors = <<>> /\ bottlenecks = <<>> /\ recommendations = <<>>
       /\ called = {}
       /\ StatIdle /\ SeriesIdle /\ ExecIdle
       /\ PropIdle
    \/ InitCsv

NextParse == ParseXmlResults \/ ParseCsvResults

SpecParse == InitParse /\ [][NextParse]_vars

\* the six analysis stages on one sample sequence, in any order that gives
\* each stage computed arguments, any number of times
InitStages ==
    /\ results \in SeqsUpTo(StageSamples, MaxLen)
    /\ metrics = NoMetrics /\ endpointMetrics = <<>>
    /\ errors = <<>> /\ bottlenecks = <<>> /\ recommendations = <<>>
    /\ intervalMs \in {1000, DefaultIntervalMs}
    /\ time = 0 /\ timeSeriesData = <<>> /\ seriesPc = "idle"
    /\ seriesOut = <<>>
    /\ called = {}
    /\ StatIdle /\ CsvIdle /\ XmlIdle /\ ExecIdle
    /\ PropIdle

NextStages ==
    \/ CalculateMetrics
    \/ CalculateEndpointMetrics
    \/ AnalyzeErrors
    \/ StageBottlenecks
    \/ StageRecommendations
    \/ SeriesBegin
    \/ SeriesAgain
    \/ SeriesTest
    \/ SeriesStep
    \/ SeriesReturn

SpecStages == InitStages /\ [][NextStages]_vars

\* one call of executeTest or executeDistributedTest and the events of the
\* process it spawned, in every order the process can emit them
InitExec ==
    /\ ExecIdle /\ PropIdle
    /\ results = <<>>
    /\ metrics = NoMetrics /\ endpointMetrics = <<>>
    /\ errors = <<>> /\ bottlenecks = <<>> /\ recommendations = <<>>
    /\ called = {}
    /\ StatIdle /\ SeriesIdle /\ CsvIdle /\ XmlIdle

NextExec ==
    \/ ExecuteTest
    \/ ExecuteDistributedTest
    \/ StdoutData
    \/ StderrData
    \/ ProcessClose
    \/ ProcessError
    \/ SpawnError
    \/ CloseAfterSpawnError

SpecExec == InitExec /\ [][NextExec]_vars

\* a started process eventually closes and a failed start eventually emits
\* its 'error' event; nothing else is promised
SpecExecLive ==
    /\ InitExec /\ [][NextExec]_vars
    /\ WF_vars(ProcessClose)
    /\ WF_vars(SpawnError)

\* setProperty on properties files of up to MaxLines lines
InitProperties ==
    /\ propsFile \in PropertyFiles
    /\ setArgs = NoArgs /\ setResult = NoSetResult
    /\ ExecIdle
    /\ results = <<>>
    /\ metrics = NoMetrics /\ endpointMetrics = <<>>
    /\ errors = <<>> /\ bottlenecks = <<>> /\ recommendations = <<>>
    /\ called = {}
    /\ StatIdle /\ SeriesIdle /\ CsvIdle /\ XmlIdle

NextProperties == "setProperty" \notin called /\ SetProperty

SpecProperties == InitProperties /\ [][NextProperties]_vars

\* analyzeResults on the four-sample scenario
InitAnalyze ==
    /\ results \in ScenarioInputs
    /\ metrics = NoMetrics /\ endpointMetrics = <<>>
    /\ StatIdle /\ OutputsIdle

NextAnalyze ==
    \/ StepMetrics
    \/ StepEndpointMetrics
    \/ StepErrors
    \/ StepBottlenecks
    \/ StepRecommendations

SpecAnalyze == InitAnalyze /\ [][NextAnalyze]_vars

\* the analysis stages of analyzeResults on one sample sequence
Init == InitAggregate

Next ==
    \/ CalculateMetrics
    \/ CalculateEndpointMetrics
    \/ AnalyzeErrors
    \/ IdentifyBottlenecks

Spec == Init /\ [][Next]_vars

---------------------------------------------------------------------------
(* Properties *)

IntFields == {"totalRequests", "successfulRequests", "failedRequests",
              "medianResponseTime", "minResponseTime", "maxResponseTime",
              "percentile90", "percentile95", "percentile99"}

RatFields == {"errorRate", "averageResponseTime", "throughput",
              "receivedKBPerSec", "sentKBPerSec", "avgBytes", "avgLatency",
              "avgConnectTime"}

\* the 0-based nearest rank index of p in a sequence of n elements:
\* ceil(p / 100 * n) - 1, not below 0
NearestRankIndex(p, n) ==
    LET rank == CHOOSE k \in 0..n :
                    k * 100 >= p * n /\ (k - 1) * 100 < p * n
    IN  IF rank - 1 < 0 THEN 0 ELSE rank - 1

C2_EmptyInputIsZero ==
    /\ ("average" \in called /\ numbers = <<>>) => avgOut = <<0, 1>>
    /\ ("percentile" \in called /\ numbers = <<>>) => pctOut = 0
    /\ ("calculateMetrics" \in called /\ results = <<>>) =>
          /\ DOMAIN metrics = IntFields \cup RatFields
          /\ \A f \in IntFields : metrics[f] = 0
          /\ \A f \in RatFields : metrics[f] = <<0, 1>>

C2_Witness ==
    /\ {"average", "percentile", "calculateMetrics"} \subseteq called
    /\ numbers = <<>> /\ results = <<>>
    /\ pctArg = 95
    /\ metrics.totalRequests = 0

TimestampSet(rs) == {rs[i].timestamp : i \in 1..Len(rs)}

SpanOf(rs) ==
    LET T  == TimestampSet(rs)
        hi == CHOOSE t \in T : \A u \in T : u <= t
        lo == CHOOSE t \in T : \A u \in T : t <= u
    IN  hi - lo

\* C3: for non-empty samples the summary's throughput is
\* count / ((max timestamp - min timestamp) / 1000) when that span is
\* positive and 0 when the span is 0 or less.
C3_ThroughputOverSpan ==
    ("calculateMetrics" \in called /\ Len(results) > 0) =>
        LET span == SpanOf(results)
        IN  IF span > 0
            THEN /\ metrics.throughput[2] > 0
                 /\ metrics.throughput[1] * span
                      = Len(results) * 1000 * metrics.throughput[2]
            ELSE metrics.throughput = <<0, 1>>

C3_Witness ==
    /\ "calculateMetrics" \in called
    /\ Len(results) = 3
    /\ SpanOf(results) = 1500
    /\ metrics.throughput = <<2, 1>>

FirstIndexOfLabel(lb) ==
    CHOOSE i \in 1..Len(results) :
        /\ results[i].label = lb
        /\ \A j \in 1..(i - 1) : results[j].label # lb

\* C4: calculateEndpointMetrics returns the groups in descending order of
\* average response time, and groups with equal average in the order in
\* which their labels first occur in the input, whatever the labels are.
C4_DescendingAverageThenEncounterOrder ==
    "calculateEndpointMetrics" \in called =>
        \A i, j \in 1..Len(endpointMetrics) :
            i < j =>
                LET a == endpointMetrics[i].average
                    b == endpointMetrics[j].average
                IN  \/ a[1] * b[2] > b[1] * a[2]
                    \/ /\ a = b
                       /\ FirstIndexOfLabel(endpointMetrics[i].label)
                            < FirstIndexOfLabel(endpointMetrics[j].label)

FailedIndexes == {i \in 1..Len(results) : ~results[i].success}

PairAt(i) == <<results[i].responseCode, results[i].responseMessage>>

FailedPairs == {PairAt(i) : i \in FailedIndexes}

ClusterPair(c) == <<c.responseCode, c.responseMessage>>

\* C5: analyzeErrors returns exactly one cluster per distinct
\* (responseCode, responseMessage) pair among the failed samples, so two
\* failed samples share a cluster exactly when their codes are equal and
\* their messages are equal, also when these contain '-'.
C5_OneClusterPerCodeMessagePair ==
    "analyzeErrors" \in called =>
        /\ Len(errors) = Cardinality(FailedPairs)
        /\ \A p \in FailedPairs :
              Cardinality({k \in 1..Len(errors) : ClusterPair(errors[k]) = p}) = 1

RECURSIVE SumPercentages(_)
SumPercentages(es) ==
    IF es = <<>> THEN <<0, 1>>
    ELSE RatAdd(Head(es).percentage, SumPercentages(Tail(es)))

RECURSIVE SumCounts(_)
SumCounts(es) == IF es = <<>> THEN 0 ELSE Head(es).count + SumCounts(Tail(es))

\* C6: each error cluster's percentage is its count divided by the number
\* of all samples times 100, the cluster counts add up to the number of
\* failed samples, and the percentages add up to the summary's error rate.
C6_PercentagesSumToErrorRate ==
    ({"analyzeErrors", "calculateMetrics"} \subseteq called) =>
        /\ \A k \in 1..Len(errors) :
              /\ errors[k].percentage[2] > 0
              /\ errors[k].percentage[1] * Len(results)
                   = errors[k].count * 100 * errors[k].percentage[2]
        /\ SumCounts(errors) = Cardinality(FailedIndexes)
        /\ SumPercentages(errors) = metrics.errorRate

C6_Witness ==
    /\ {"analyzeErrors", "calculateMetrics"} \subseteq called
    /\ Len(results) = 3
    /\ Len(errors) = 2
    /\ Cardinality(FailedIndexes) = 2
    /\ metrics.errorRate = <<200, 3>>

\* C7: the failed samples with one response code and message form one
\* cluster, whose count is the number of those samples and whose
\* affectedEndpoints lists exactly their distinct labels, each once.
C7_ClusterCountAndEndpointsPerPair ==
    "analyzeErrors" \in called =>
        \A p \in FailedPairs :
            LET members == {i \in FailedIndexes : PairAt(i) = p}
            IN  \E k \in 1..Len(errors) :
                    LET ae == errors[k].affectedEndpoints
                    IN  /\ ClusterPair(errors[k]) = p
                        /\ errors[k].count = Cardinality(members)
                        /\ {ae[n] : n \in 1..Len(ae)}
                             = {results[i].label : i \in members}
                        /\ \A m, n \in 1..Len(ae) : m # n => ae[m] # ae[n]

FirstFailedIndexOfPair(p) ==
    CHOOSE i \in FailedIndexes :
        /\ PairAt(i) = p
        /\ \A j \in FailedIndexes : j < i => PairAt(j) # p

\* C8: analyzeErrors returns the clusters by descending count, and clusters
\* of equal count in the order in which their (code, message) pair first
\* occurs among the failed samples.
C8_ClustersDescendingCountThenEncounterOrder ==
    "analyzeErrors" \in called =>
        \A i, j \in 1..Len(errors) :
            i < j =>
                \/ errors[i].count > errors[j].count
                \/ /\ errors[i].count = errors[j].count
                   /\ FirstFailedIndexOfPair(ClusterPair(errors[i]))
                        < FirstFailedIndexOfPair(ClusterPair(errors[j]))

C8_Witness ==
    /\ "analyzeErrors" \in called
    /\ Len(errors) = 2
    /\ errors[1].count = 2 /\ errors[2].count = 1
    /\ FirstFailedIndexOfPair(ClusterPair(errors[2]))
         < FirstFailedIndexOfPair(ClusterPair(errors[1]))

BottlenecksOf(kind, lb) ==
    {k \in 1..Len(bottlenecks) :
        /\ bottlenecks[k].type = kind
        /\ bottlenecks[k].affectedEndpoint = lb}

\* C9: identifyBottlenecks emits a slow-endpoint bottleneck for an endpoint
\* exactly when its average is strictly greater than 2000 ms: critical when
\* average > 5000, high when 3000 < average <= 5000, medium when
\* 2000 < average <= 3000, and nothing at exactly 2000.
C9_SlowEndpointThresholds ==
    "identifyBottlenecks" \in called =>
        \A e \in 1..Len(endpointMetrics) :
            LET avg  == endpointMetrics[e].average
                slow == BottlenecksOf("slow-endpoint", endpointMetrics[e].label)
                over(t) == avg[1] > t * avg[2]
            IN  /\ Cardinality(slow) = (IF over(2000) THEN 1 ELSE 0)
                /\ \A k \in slow :
                      bottlenecks[k].severity =
                          (IF over(5000) THEN "critical"
                           ELSE IF over(3000) THEN "high" ELSE "medium")

C9_Witness ==
    /\ "identifyBottlenecks" \in called
    /\ Len(endpointMetrics) = 2
    /\ endpointMetrics[1].average = <<2000, 1>>
    /\ endpointMetrics[2].average = <<5000, 1>>
    /\ BottlenecksOf("slow-endpoint", endpointMetrics[1].label) = {}
    /\ \E k \in BottlenecksOf("slow-endpoint", endpointMetrics[2].label) :
          bottlenecks[k].severity = "high"

\* C10: identifyBottlenecks emits a high-error-rate bottleneck for each
\* endpoint whose error rate is strictly greater than 5 (critical when
\* > 20, high when > 10, otherwise medium), and exactly one more, labelled
\* "All endpoints" with the same tiers, exactly when the summary's error
\* rate is strictly greater than 5.
C10_ErrorRateThresholds ==
    "identifyBottlenecks" \in called =>
        LET tier(rate) ==
                IF rate[1] > 20 * rate[2] THEN "critical"
                ELSE IF rate[1] > 10 * rate[2] THEN "high" ELSE "medium"
            overall == BottlenecksOf("high-error-rate", "All endpoints")
        IN  /\ \A e \in 1..Len(endpointMetrics) :
                  LET rate == endpointMetrics[e].errorRate
                      errs == BottlenecksOf("high-error-rate",
                                            endpointMetrics[e].label)
                  IN  /\ Cardinality(errs)
                           = (IF rate[1] > 5 * rate[2] THEN 1 ELSE 0)
                      /\ \A k \in errs : bottlenecks[k].severity = tier(rate)
            /\ Cardinality(overall)
                 = (IF metrics.errorRate[1] > 5 * metrics.errorRate[2]
                    THEN 1 ELSE 0)
            /\ \A k \in overall :
                  bottlenecks[k].severity = tier(metrics.errorRate)

C10_Witness ==
    /\ "identifyBottlenecks" \in called
    /\ Len(endpointMetrics) = 2
    /\ endpointMetrics[1].errorRate = <<5, 1>>
    /\ endpointMetrics[2].errorRate = <<20, 1>>
    /\ metrics.errorRate = <<10, 1>>
    /\ BottlenecksOf("high-error-rate", endpointMetrics[1].label) = {}
    /\ \E k \in BottlenecksOf("high-error-rate", endpointMetrics[2].label) :
          bottlenecks[k].severity = "high"
    /\ \E k \in BottlenecksOf("high-error-rate", "All endpoints") :
          bottlenecks[k].severity = "medium"

\* C11: identifyBottlenecks emits a high-latency bottleneck for an endpoint
\* exactly when its 95th percentile is strictly greater than 1000 ms:
\* critical when p95 > 3000, high when 2000 < p95 <= 3000, medium when
\* 1000 < p95 <= 2000.
C11_HighLatencyThresholds ==
    "identifyBottlenecks" \in called =>
        \A e \in 1..Len(endpointMetrics) :
            LET p95  == endpointMetrics[e].percentile95
                late == BottlenecksOf("high-latency", endpointMetrics[e].label)
            IN  /\ Cardinality(late) = (IF p95 > 1000 THEN 1 ELSE 0)
                /\ \A k \in late :
                      bottlenecks[k].severity =
                          (IF p95 > 3000 THEN "critical"
                           ELSE IF p95 > 2000 THEN "high" ELSE "medium")

C11_Witness ==
    /\ "identifyBottlenecks" \in called
    /\ Len(endpointMetrics) = 2
    /\ endpointMetrics[1].percentile95 = 1000
    /\ endpointMetrics[2].percentile95 = 3000
    /\ BottlenecksOf("high-latency", endpointMetrics[1].label) = {}
    /\ \E k \in BottlenecksOf("high-latency", endpointMetrics[2].label) :
          bottlenecks[k].severity = "high"

SeverityRank(b) ==
    CASE b.severity = "critical" -> 0
      [] b.severity = "high"     -> 1
      [] b.severity = "medium"   -> 2
      [] b.severity = "low"      -> 3

\* the place of a bottleneck in the order of generation: the position of
\* its endpoint in the input (the "All endpoints" entry after all of them),
\* then slow-endpoint, high-error-rate, high-latency
GenerationPlace(b) ==
    LET ep == IF b.affectedEndpoint = "All endpoints"
              THEN Len(endpointMetrics) + 1
              ELSE CHOOSE e \in 1..Len(endpointMetrics) :
                       endpointMetrics[e].label = b.affectedEndpoint
        kd == CASE b.type = "slow-endpoint"   -> 1
                [] b.type = "high-error-rate" -> 2
                [] b.type = "high-latency"    -> 3
    IN  3 * ep + kd

\* C12: the list returned by identifyBottlenecks is ordered critical, high,
\* medium, low, and within one severity the entries keep their generation
\* order (endpoints in the order given, per endpoint slow-endpoint, then
\* high-error-rate, then high-latency, the "All endpoints" entry last).
C12_SeverityOrderStable ==
    "identifyBottlenecks" \in called =>
        \A i, j \in 1..Len(bottlenecks) :
            i < j =>
                \/ SeverityRank(bottlenecks[i]) < SeverityRank(bottlenecks[j])
                \/ /\ SeverityRank(bottlenecks[i]) = SeverityRank(bottlenecks[j])
                   /\ GenerationPlace(bottlenecks[i])
                        < GenerationPlace(bottlenecks[j])

C12_Witness ==
    /\ "identifyBottlenecks" \in called
    /\ Len(bottlenecks) = 4
    /\ bottlenecks[1].type = "high-latency"
    /\ bottlenecks[1].severity = "critical"
    /\ bottlenecks[2].type = "high-error-rate"
    /\ bottlenecks[2].affectedEndpoint = "A"
    /\ bottlenecks[3].affectedEndpoint = "All endpoints"
    /\ bottlenecks[3].severity = "high"
    /\ bottlenecks[4].type = "slow-endpoint"

FallbackText ==
    "Performance looks good! Continue monitoring and consider stress testing with higher loads."

MonitorText ==
    "Monitor error trends: Error rate is slightly elevated. Set up alerts to catch increases early."

InconsistentText ==
    "Inconsistent response times: Consider implementing request queuing or load balancing to stabilize performance."

LowThroughputText ==
    "Low throughput detected: Consider horizontal scaling, optimizing resource usage, or increasing connection pools."

Recommended(text) ==
    \E k \in 1..Len(recommendations) : recommendations[k] = text

MonitorCase ==
    /\ metrics.errorRate[1] > metrics.errorRate[2]
    /\ metrics.errorRate[1] <= 5 * metrics.errorRate[2]

InconsistentCase ==
    metrics.percentile95 * metrics.averageResponseTime[2]
        > 2 * metrics.averageResponseTime[1]

LowThroughputCase == metrics.throughput[1] < 10 * metrics.throughput[2]

FirstClusters == 1..(IF Len(errors) < 3 THEN Len(errors) ELSE 3)

\* inputs for which none of the steps 1-3 has anything to say, and inputs
\* for which at least one has
NothingToAdvise ==
    /\ bottlenecks = <<>>
    /\ \A k \in FirstClusters : errors[k].responseCode \in {"200", "400"}
    /\ ~MonitorCase /\ ~InconsistentCase /\ ~LowThroughputCase

SomethingToAdvise ==
    \/ bottlenecks # <<>>
    \/ \E k \in FirstClusters :
          errors[k].responseCode \in {"500", "503", "404", "401", "403"}
    \/ MonitorCase \/ InconsistentCase \/ LowThroughputCase

\* C13: generateRecommendations never returns an empty list; it returns
\* the "performance looks good" fallback exactly when steps 1-3 produced no
\* advisory, and then the fallback is the only element.  An all-successful
\* run with average 500, p95 600 and throughput 50 gives no bottleneck and
\* exactly the fallback.
C13_NeverEmptyFallbackAlone ==
    "generateRecommendations" \in called =>
        /\ Len(recommendations) >= 1
        /\ Recommended(FallbackText) => recommendations = <<FallbackText>>
        /\ NothingToAdvise => recommendations = <<FallbackText>>
        /\ SomethingToAdvise => ~Recommended(FallbackText)
        /\ ( /\ "identifyBottlenecks" \in called
             /\ metrics.errorRate = <<0, 1>>
             /\ metrics.averageResponseTime = <<500, 1>>
             /\ metrics.percentile95 = 600
             /\ metrics.throughput = <<50, 1>>
             /\ endpointMetrics = <<QuietEndpoint>>
             /\ errors = <<>> )
           => (bottlenecks = <<>> /\ recommendations = <<FallbackText>>)

C13_Witness ==
    /\ {"identifyBottlenecks", "generateRecommendations"} \subseteq called
    /\ endpointMetrics = <<QuietEndpoint>>
    /\ metrics.throughput = <<50, 1>>
    /\ bottlenecks = <<>>
    /\ recommendations = <<FallbackText>>

\* the advisory the rule table states for a bottleneck
AdviceFor(b) ==
    CASE b.type = "slow-endpoint" ->
           "Optimize \"" \o b.affectedEndpoint
           \o "\": Consider database query optimization, caching, or code profiling."
      [] b.type = "high-error-rate" ->
           "Investigate errors in \"" \o b.affectedEndpoint
           \o "\": Check server logs, validate input data, and review error handling."
      [] b.type = "high-latency" ->
           "Reduce latency for \"" \o b.affectedEndpoint
           \o "\": Review network configuration, enable compression, or use CDN."

ServerErrorText(code) ==
    "Server errors (" \o code
    \o "): Review server capacity, check for memory leaks, and monitor resource usage."

NotFoundText ==
    "404 errors found: Verify API endpoints are correctly configured and accessible."

AuthText ==
    "Authentication/Authorization errors: Check credentials, tokens, and permission configurations."

ClusterTexts ==
    {ServerErrorText(errors[k].responseCode) : k \in 1..Len(errors)}
    \cup {NotFoundText, AuthText}

HeuristicTexts == {MonitorText, InconsistentText, LowThroughputText}

\* C14: the recommendation list begins with exactly one advisory per
\* bottleneck, in the order of the bottleneck list and without
\* deduplication, each naming the bottleneck's endpoint and templated by
\* its kind; advisories from error clusters and from the global heuristics
\* come strictly after them, in that order.
C14_BottleneckAdvisoriesFirst ==
    "generateRecommendations" \in called =>
        LET nb == Len(bottlenecks)
            nr == Len(recommendations)
        IN  /\ nr >= nb
            /\ \A k \in 1..nb : recommendations[k] = AdviceFor(bottlenecks[k])
            /\ \A k \in (nb + 1)..nr :
                  recommendations[k]
                      \in ClusterTexts \cup HeuristicTexts \cup {FallbackText}
            /\ \A i, j \in (nb + 1)..nr :
                  (/\ recommendations[i] \in HeuristicTexts
                   /\ recommendations[j] \in ClusterTexts) => j < i

C14_Witness ==
    /\ "generateRecommendations" \in called
    /\ Len(bottlenecks) = 2
    /\ bottlenecks[1] = bottlenecks[2]
    /\ bottlenecks[1].type = "high-latency"
    /\ errors = <<ClusterInput("500")>>
    /\ Len(recommendations) = 4
    /\ recommendations[1] = recommendations[2]
    /\ recommendations[3] = ServerErrorText("500")
    /\ recommendations[4] = LowThroughputText

\* a response code of the 5xx class: the decimal string of 500..599
Is5xx(code) == \E n \in 500..599 : ToStr(n) = code

\* the advisory the rule table states for an error cluster, if any
ClusterAdvice(c) ==
    IF Is5xx(c.responseCode) THEN <<ServerErrorText(c.responseCode)>>
    ELSE IF c.responseCode = "404" THEN <<NotFoundText>>
    ELSE IF c.responseCode \in {"401", "403"} THEN <<AuthText>>
    ELSE <<>>

RECURSIVE ClusterAdvisories(_)
ClusterAdvisories(es) ==
    IF es = <<>> THEN <<>>
    ELSE ClusterAdvice(Head(es)) \o ClusterAdvisories(Tail(es))

\* the recommendations that are neither bottleneck advisories (the first
\* Len(bottlenecks) entries) nor heuristics nor the fallback
ClusterPart ==
    SelectSeq(SubSeq(recommendations, Len(bottlenecks) + 1,
                     Len(recommendations)),
              LAMBDA t : t \notin HeuristicTexts \cup {FallbackText})

\* C15: only the first three error clusters can contribute an advisory: the
\* capacity advice for a 5xx code, the endpoint-configuration advice for
\* 404, the auth advice for 401 or 403, nothing for any other code, and
\* nothing for a fourth or later cluster.
C15_FirstThreeClustersByCodeClass ==
    "generateRecommendations" \in called =>
        ClusterPart = ClusterAdvisories(SubSeq(errors, 1,
                          IF Len(errors) < 3 THEN Len(errors) ELSE 3))

\* C16: the three global heuristics are evaluated independently: "monitor
\* trend" exactly when 1 < errorRate <= 5, "inconsistent response time"
\* exactly when p95 > 2 * average, "low throughput" exactly when
\* throughput < 10; those emitted appear in that fixed order.
C16_IndependentHeuristics ==
    "generateRecommendations" \in called =>
        LET at(text) == CHOOSE k \in 1..Len(recommendations) :
                            recommendations[k] = text
            once(text) == Cardinality({k \in 1..Len(recommendations) :
                              recommendations[k] = text}) <= 1
        IN  /\ Recommended(MonitorText) <=> MonitorCase
            /\ Recommended(InconsistentText) <=> InconsistentCase
            /\ Recommended(LowThroughputText) <=> LowThroughputCase
            /\ once(MonitorText) /\ once(InconsistentText)
            /\ once(LowThroughputText)
            /\ (MonitorCase /\ InconsistentCase) =>
                  at(MonitorText) < at(InconsistentText)
            /\ (InconsistentCase /\ LowThroughputCase) =>
                  at(InconsistentText) < at(LowThroughputText)
            /\ (MonitorCase /\ LowThroughputCase) =>
                  at(MonitorText) < at(LowThroughputText)

C16_Witness ==
    /\ "generateRecommendations" \in called
    /\ metrics.errorRate = <<5, 1>>
    /\ metrics.percentile95 = 1001
    /\ metrics.throughput = <<999, 100>>
    /\ bottlenecks = <<>>
    /\ errors = <<ClusterInput("400")>>
    /\ recommendations = <<MonitorText, InconsistentText, LowThroughputText>>

ScenarioCase ==
    /\ Len(results) = 4
    /\ \A v \in {100, 200, 300, 10000} :
          \E i \in 1..4 : results[i].elapsed = v
    /\ \A i \in 1..4 : results[i].label = "X"
    /\ Cardinality(FailedIndexes) = 1
    /\ \A i \in FailedIndexes : results[i].responseCode = "500"

BottlenecksOfKind(kind) ==
    {k \in 1..Len(bottlenecks) : bottlenecks[k].type = kind}

\* C17: for four samples labelled "X" with elapsed 100, 200, 300, 10000,
\* one of them failed with code "500", the average is 2650, the 95th
\* percentile 10000, the error rate 25, and the bottleneck list contains
\* one slow-endpoint bottleneck of severity medium and a high-error-rate
\* bottleneck of severity critical for the endpoint.
C17_FourSampleScenario ==
    (ScenarioCase /\ "identifyBottlenecks" \in called) =>
        /\ metrics.averageResponseTime = <<2650, 1>>
        /\ metrics.percentile95 = 10000
        /\ metrics.errorRate = <<25, 1>>
        /\ Len(endpointMetrics) = 1
        /\ endpointMetrics[1].average = <<2650, 1>>
        /\ endpointMetrics[1].percentile95 = 10000
        /\ endpointMetrics[1].errorRate = <<25, 1>>
        /\ Cardinality(BottlenecksOfKind("slow-endpoint")) = 1
        /\ \A k \in BottlenecksOfKind("slow-endpoint") :
              /\ bottlenecks[k].severity = "medium"
              /\ bottlenecks[k].affectedEndpoint = "X"
        /\ Cardinality(BottlenecksOf("high-error-rate", "X")) = 1
        /\ \A k \in BottlenecksOfKind("high-error-rate") :
              bottlenecks[k].severity = "critical"

C17_Witness ==
    /\ ScenarioCase
    /\ "identifyBottlenecks" \in called
    /\ results[1].elapsed = 10000 /\ ~results[4].success
    /\ Len(bottlenecks) = 4
    /\ bottlenecks[4].type = "slow-endpoint"
    /\ bottlenecks[4].value = <<2650, 1>>

\* the samples whose timestamp lies in the window starting at w
InWindow(w) ==
    {i \in 1..Len(results) :
        /\ w <= results[i].timestamp
        /\ results[i].timestamp < w + intervalMs}

\* the number of samples a point stands for: throughput * (intervalMs / 1000)
PointCount(pt) ==
    (pt.throughput[1] * intervalMs) \div (1000 * pt.throughput[2])

RECURSIVE SumPointCounts(_)
SumPointCounts(pts) ==
    IF pts = <<>> THEN 0
    ELSE PointCount(Head(pts)) + SumPointCounts(Tail(pts))

\* C18: for non-empty samples and intervalMs > 0, generateTimeSeriesData
\* counts each sample in exactly one emitted point, the one whose window
\* has window_start <= timestamp < window_start + intervalMs; no point is
\* empty, the points ascend by window_start, and the per-point counts add
\* up to the number of samples.
C18_EachSampleInOneWindow ==
    ("generateTimeSeriesData" \in called /\ Len(results) > 0
        /\ intervalMs > 0) =>
        /\ \A k \in 1..Len(timeSeriesData) :
              /\ InWindow(timeSeriesData[k].timestamp) # {}
              /\ PointCount(timeSeriesData[k])
                   = Cardinality(InWindow(timeSeriesData[k].timestamp))
        /\ \A i \in 1..Len(results) :
              Cardinality({k \in 1..Len(timeSeriesData) :
                  i \in InWindow(timeSeriesData[k].timestamp)}) = 1
        /\ \A k \in 1..(Len(timeSeriesData) - 1) :
              timeSeriesData[k].timestamp < timeSeriesData[k + 1].timestamp
        /\ SumPointCounts(timeSeriesData) = Len(results)

C18_Witness ==
    /\ "generateTimeSeriesData" \in called
    /\ intervalMs = 1000
    /\ Len(results) = 3
    /\ results[1].timestamp = 1000
    /\ results[2].timestamp = 0
    /\ results[3].timestamp = 500
    /\ Len(timeSeriesData) = 2
    /\ PointCount(timeSeriesData[1]) = 2
    /\ timeSeriesData[2].timestamp = 1000

TwoSampleCase ==
    /\ "generateTimeSeriesData" \in called
    /\ intervalMs = 1000
    /\ Len(results) = 2
    /\ results[1].timestamp = 500
    /\ results[2].timestamp = 1700

\* C19: with intervalMs = 1000 and two samples at timestamps 500 and 1700
\* the bucketer produces two points, for the windows [0, 1000) and
\* [1000, 2000), each containing one sample.
C19_WindowsFromZero ==
    TwoSampleCase =>
        /\ Len(timeSeriesData) = 2
        /\ timeSeriesData[1].timestamp = 0
        /\ timeSeriesData[2].timestamp = 1000
        /\ PointCount(timeSeriesData[1]) = 1
        /\ PointCount(timeSeriesData[2]) = 1

\* C19 as amended: with intervalMs = 1000 and two samples at timestamps 500
\* and 1700 the bucketer produces two points, for the windows [500, 1500)
\* and [1500, 2500) that start at the smallest timestamp, each containing
\* one sample.
C19_WindowsFromMinTimestamp ==
    TwoSampleCase =>
        /\ Len(timeSeriesData) = 2
        /\ timeSeriesData[1].timestamp = 500
        /\ timeSeriesData[2].timestamp = 1500
        /\ PointCount(timeSeriesData[1]) = 1
        /\ PointCount(timeSeriesData[2]) = 1
        /\ InWindow(500) = {1} /\ InWindow(1500) = {2}

C19_Witness ==
    /\ TwoSampleCase
    /\ Len(timeSeriesData) = 2
    /\ timeSeriesData[2].timestamp = 1500

\* an encoded field enclosed in double quotes that holds the delimiter
QuotedWithDelimiter(field) ==
    /\ Len(field) >= 2
    /\ field[1] = "\"" /\ field[Len(field)] = "\""
    /\ \E k \in 2..(Len(field) - 1) : field[k] = ","

\* the characters of an encoded field: its text without the quote
\* characters and without surrounding blanks
FieldChars(field) == Trim(SelectSeq(field, LAMBDA c : c # "\""))

\* the JTLResult of record j holds field i under the property that the
\* header names at position i
InResult(j, i) ==
    LET name == written.header[i]
        text == FieldChars(written.records[j][i])
    IN  /\ name = labelName =>
              csvResults[j].label = (IF text = <<>> THEN UnknownLabel ELSE text)
        /\ name = elapsedName =>
              csvResults[j].elapsed = (IF text = <<"7">> THEN 7 ELSE 0)
        /\ name = successName =>
              csvResults[j].success = (text = TrueText)

\* C20: in the delimited format a field enclosed in double quotes that
\* contains the delimiter is parsed into exactly one field: it and every
\* later field of its record is assigned to the column the header names at
\* the same position.
C20_QuotedDelimiterIsOneField ==
    "parseCsvResults" \in called =>
        \A j \in 1..Len(written.records) :
            \A q \in 1..Len(written.records[j]) :
                QuotedWithDelimiter(written.records[j][q]) =>
                    /\ Len(csvRows) = Len(written.records)
                    /\ Len(csvResults) = Len(written.records)
                    /\ \A i \in q..Len(written.records[j]) :
                          /\ csvRows[j][written.header[i]]
                               = FieldChars(written.records[j][i])
                          /\ InResult(j, i)

C20_Witness ==
    /\ "parseCsvResults" \in called
    /\ written.header = <<labelName, elapsedName, successName>>
    /\ written.records = << << <<"\"", "a", ",", "b", "\"">>, <<"7">>, TrueText >> >>
    /\ Len(csvResults) = 1
    /\ csvResults[1].label = <<"a", ",", "b">>
    /\ csvResults[1].elapsed = 7
    /\ csvResults[1].success

\* the number an attribute text of the sample elements denotes
NumberOfText(text) ==
    CASE text = <<"1", "2", "0">>      -> 120
      [] text = <<"9", "0", "0", "0">> -> 9000
      [] text = <<"-", "5">>           -> 0 - 5
      [] OTHER                         -> 0

\* C21: for a sample element that carries both an elapsed-time attribute
\* and a timestamp attribute, the parsed sample's timestamp is the
\* timestamp attribute and its elapsed time is the elapsed-time attribute;
\* the timestamp is never taken from the elapsed-time value.
C21_TimestampFromTimestampAttribute ==
    "parseXmlResults" \in called =>
        \A k \in 1..Len(xmlSource) :
            (xmlSource[k].t # Undefined /\ xmlSource[k].ts # Undefined) =>
                /\ xmlResults[k].timestamp = NumberOfText(xmlSource[k].ts)
                /\ xmlResults[k].elapsed = NumberOfText(xmlSource[k].t)

\* C22: every sample produced by the parser, in either format and for any
\* field contents, has elapsed >= 0 and a non-empty label, the label being
\* "Unknown" when the input carries none.
C22_ElapsedNonNegativeLabelNonEmpty ==
    /\ "parseXmlResults" \in called =>
          \A k \in 1..Len(xmlSource) :
              /\ xmlResults[k].elapsed >= 0
              /\ xmlResults[k].label # JsString(<<>>)
              /\ xmlResults[k].label.kind # "undefined"
              /\ xmlSource[k].lb = Undefined =>
                    xmlResults[k].label = JsString(UnknownLabel)
    /\ "parseCsvResults" \in called =>
          \A j \in 1..Len(csvResults) :
              /\ csvResults[j].elapsed >= 0
              /\ csvResults[j].label # <<>>
              /\ csvRows[j][labelName] = <<>> =>
                    csvResults[j].label = UnknownLabel

\* the positions of the samples labelled lb
IndexesOfLabel(lb) == {i \in 1..Len(results) : results[i].label = lb}

\* max timestamp - min timestamp over the samples labelled lb
SpanOfLabel(lb) ==
    LET T  == {results[i].timestamp : i \in IndexesOfLabel(lb)}
        hi == CHOOSE t \in T : \A u \in T : u <= t
        lo == CHOOSE t \in T : \A u \in T : t <= u
    IN  hi - lo

\* C23: each endpoint's throughput is the number of samples of its group
\* divided by that group's own span (max timestamp - min timestamp of the
\* group, in seconds), and 0 when that span is 0; the timestamps of samples
\* with other labels play no part.
C23_EndpointThroughputOverOwnSpan ==
    "calculateEndpointMetrics" \in called =>
        \A k \in 1..Len(endpointMetrics) :
            LET e    == endpointMetrics[k]
                n    == Cardinality(IndexesOfLabel(e.label))
                span == SpanOfLabel(e.label)
            IN  /\ n > 0
                /\ IF span > 0
                   THEN /\ e.throughput[2] > 0
                        /\ e.throughput[1] * span = n * 1000 * e.throughput[2]
                   ELSE e.throughput = <<0, 1>>

C23_Witness ==
    /\ "calculateEndpointMetrics" \in called
    /\ Len(results) = 3
    /\ results[1].label = "A" /\ results[1].timestamp = 500
    /\ results[2].label = "2" /\ results[2].timestamp = 0
    /\ results[3].label = "A" /\ results[3].timestamp = 2000
    /\ \E k \in 1..Len(endpointMetrics) :
          /\ endpointMetrics[k].label = "A"
          /\ endpointMetrics[k].throughput = <<4, 3>>
    /\ \E k \in 1..Len(endpointMetrics) :
          /\ endpointMetrics[k].label = "2"
          /\ endpointMetrics[k].throughput = <<0, 1>>

SlowTriggered(e) == e.average[1] > 2000 * e.average[2]

ErrorTriggered(rate) == rate[1] > 5 * rate[2]

LatencyTriggered(e) == e.percentile95 > 1000

\* the number of conditions that hold for endpoint entry k of the input
TriggeredAt(k) ==
    LET e == endpointMetrics[k]
    IN  (IF SlowTriggered(e) THEN 1 ELSE 0)
        + (IF ErrorTriggered(e.errorRate) THEN 1 ELSE 0)
        + (IF LatencyTriggered(e) THEN 1 ELSE 0)

RECURSIVE TriggeredUpTo(_)
TriggeredUpTo(k) == IF k = 0 THEN 0 ELSE TriggeredAt(k) + TriggeredUpTo(k - 1)

\* C25: identifyBottlenecks neither drops nor merges findings: the list
\* has exactly one entry for every (endpoint, condition) pair whose trigger
\* holds, at most three per endpoint entry, plus at most one global entry,
\* so its length is the number of triggered conditions.
C25_OneEntryPerTriggeredCondition ==
    "identifyBottlenecks" \in called =>
        /\ \A k \in 1..Len(endpointMetrics) :
              LET e == endpointMetrics[k]
              IN  /\ Cardinality(BottlenecksOf("slow-endpoint", e.label))
                       = (IF SlowTriggered(e) THEN 1 ELSE 0)
                  /\ Cardinality(BottlenecksOf("high-error-rate", e.label))
                       = (IF ErrorTriggered(e.errorRate) THEN 1 ELSE 0)
                  /\ Cardinality(BottlenecksOf("high-latency", e.label))
                       = (IF LatencyTriggered(e) THEN 1 ELSE 0)
                  /\ TriggeredAt(k) <= 3
        /\ Cardinality(BottlenecksOf("high-error-rate", "All endpoints"))
             = (IF ErrorTriggered(metrics.errorRate) THEN 1 ELSE 0)
        /\ Len(bottlenecks)
             = TriggeredUpTo(Len(endpointMetrics))
                 + (IF ErrorTriggered(metrics.errorRate) THEN 1 ELSE 0)

\* two endpoints with all three conditions each, and the global entry
C25_Witness ==
    /\ "identifyBottlenecks" \in called
    /\ Len(endpointMetrics) = 2
    /\ TriggeredAt(1) = 3 /\ TriggeredAt(2) = 3
    /\ ErrorTriggered(metrics.errorRate)
    /\ Len(bottlenecks) = 7

\* C26: no bottleneck returned by identifyBottlenecks has severity low
\* (every severity is critical, high or medium) and none has a kind other
\* than slow-endpoint, high-error-rate or high-latency.
C26_NoLowSeverityThreeKinds ==
    "identifyBottlenecks" \in called =>
        \A k \in 1..Len(bottlenecks) :
            /\ bottlenecks[k].severity # "low"
            /\ bottlenecks[k].severity \in {"critical", "high", "medium"}
            /\ bottlenecks[k].type
                 \in {"slow-endpoint", "high-error-rate", "high-latency"}

\* every condition triggered just above its threshold
C26_Witness ==
    /\ "identifyBottlenecks" \in called
    /\ \E k \in 1..Len(bottlenecks) :
          /\ bottlenecks[k].type = "slow-endpoint"
          /\ bottlenecks[k].severity = "medium"
    /\ \E k \in 1..Len(bottlenecks) :
          /\ bottlenecks[k].type = "high-latency"
          /\ bottlenecks[k].severity = "medium"
    /\ \E k \in 1..Len(bottlenecks) :
          /\ bottlenecks[k].type = "high-error-rate"
          /\ bottlenecks[k].affectedEndpoint = "All endpoints"
          /\ bottlenecks[k].severity = "medium"

\* C27: generateTimeSeriesData terminates for every sample sequence and
\* every intervalMs it accepts, zero and negative values included: the call
\* eventually returns.
C27_WindowWalkTerminates == <>(seriesPc = "done")

\* C28: executeDistributedTest's promise eventually settles for every
\* outcome of the spawned process: a normal close, a close with a non-zero
\* code, or a failed start that emits only an 'error' event.
C28_DistributedPromiseSettles ==
    (execMethod = "executeDistributedTest") ~> (promise.state = "fulfilled")

\* C29: in every result of executeTest, for any order of the 'data',
\* 'close' and 'error' events, success is true if and only if exitCode is
\* 0 (also when the process closes with a null code after a signal), and
\* the promise settles with the first of 'close' or 'error' only.
C29_SuccessIffExitCodeZero ==
    [][ /\ (execMethod' = "executeTest" /\ promise'.state = "fulfilled") =>
              (promise'.value.success <=> promise'.value.exitCode = 0)
        /\ promise.state = "fulfilled" => promise' = promise
      ]_vars

\* the lines of a properties text
LinesOf(text) == Split(text, "\n")

\* the trimmed line begins with the key and the '=' sign right after it
IsLineOfKey(line, key) ==
    LET trimmed == Trim(line)
    IN  /\ Len(trimmed) > Len(key)
        /\ \A k \in 1..Len(key) : trimmed[k] = key[k]
        /\ trimmed[Len(key) + 1] = "="

\* C30: a successful setProperty(key, value) changes the properties file in
\* at most one place: it replaces the first line whose trimmed text starts
\* with key and '=' by key=value, or appends one line key=value when there
\* is no such line; every other line is unchanged and keeps its place, and
\* a line of a different key that has key as a prefix of its name is never
\* replaced.
C30_SetPropertyOnePlace ==
    [][ setResult'.success =>
          LET key     == setArgs'.key
              value   == setArgs'.value
              before  == LinesOf(IF propsFile = NoFile
                                 THEN DefaultProperties ELSE propsFile)
              after   == LinesOf(propsFile')
              ofKey   == {i \in 1..Len(before) : IsLineOfKey(before[i], key)}
              newLine == key \o <<"=">> \o value
          IN  IF ofKey # {}
              THEN LET first == CHOOSE i \in ofKey : \A j \in ofKey : i <= j
                   IN  /\ Len(after) = Len(before)
                       /\ after[first] = newLine
                       /\ \A i \in 1..Len(before) :
                             i # first => after[i] = before[i]
              ELSE /\ Len(after) = Len(before) + 1
                   /\ after[Len(after)] = newLine
                   /\ \A i \in 1..Len(before) : after[i] = before[i]
      ]_vars

====
